---- MODULE Spec2Model ----
(***************************************************************************)
(* The ether interpreter: the Pratt parser (parser/parser.go) and the      *)
(* tree-walking evaluator (evaluator/evaluator.go).  A source program is   *)
(* a token sequence (the lexer's output); ParseProgram turns it into an    *)
(* AST and evalProgram walks the AST statement by statement in the root    *)
(* environment.  Every Go function is one operator of the same name; a Go  *)
(* loop is the recursive operator named after its function with the suffix *)
(* Loop.                                                                   *)
(***************************************************************************)
EXTENDS Integers, Sequences, FiniteSets, TLC

VARIABLES src, alt, pc, program, heap, out, idx, evaluated, result

vars == <<src, alt, pc, program, heap, out, idx, evaluated, result>>

(***************************************************************************)
(* Machine integers.  Go's int is the 64-bit two's-complement word; the    *)
(* model keeps the two's-complement behaviour on a word of IntBits bits.   *)
(***************************************************************************)
IntBits == 8

RECURSIVE Pow2(_)
Pow2(n) ==
    IF n = 0 THEN 1 ELSE 2 * Pow2(n - 1)

\* The number of values of the word.
Modulus == Pow2(IntBits)

MaxInt == Modulus \div 2 - 1

MinInt == 0 - Modulus \div 2

\* The value of the word whose mathematical value is n: n modulo 2^IntBits,
\* read as a signed number.
Wrap(n) ==
    LET m == n % Modulus
    IN  IF m > MaxInt THEN m - Modulus ELSE m

Abs(n) ==
    IF n < 0 THEN 0 - n ELSE n

\* Go's / on int: the quotient truncated toward zero (MinInt / -1 wraps).
GoQuo(l, r) ==
    LET q == Abs(l) \div Abs(r)
    IN  Wrap(IF (l < 0) = (r < 0) THEN q ELSE 0 - q)

\* Go's % on int: the remainder has the sign of the dividend.
GoRem(l, r) ==
    LET m == Abs(l) % Abs(r)
    IN  IF l < 0 THEN 0 - m ELSE m

(***************************************************************************)
(* Tokens (token package).                                                 *)
(***************************************************************************)
\* token.Token: Type and Literal; the Literal of an INTEGER token is kept
\* as its decimal digits.
Token(type, literal, digits) ==
    [Type |-> type, Literal |-> literal, Digits |-> digits]

EOF == Token("EOF", "", <<>>)

TypeByLiteral(literal) ==
    CASE literal = "var" -> "VAR"
      [] literal = "return" -> "RETURN"
      [] literal = "true" -> "TRUE"
      [] literal = "false" -> "FALSE"
      [] literal = "if" -> "IF"
      [] literal = "else" -> "ELSE"
      [] OTHER -> "IDENT"

RECURSIVE DigitsOf(_)
DigitsOf(n) ==
    IF n < 10 THEN <<n>> ELSE Append(DigitsOf(n \div 10), n % 10)

\* The numerals the sources are written with, each with the number it writes.
Numeral ==
    [n \in {"0", "1", "2", "3", "4", "5", "6", "7", "8", "9"} |->
        CASE n = "0" -> 0 [] n = "1" -> 1 [] n = "2" -> 2 [] n = "3" -> 3
          [] n = "4" -> 4 [] n = "5" -> 5 [] n = "6" -> 6 [] n = "7" -> 7
          [] n = "8" -> 8 [] n = "9" -> 9]
    @@ ("10" :> 10) @@ ("20" :> 20) @@ ("42" :> 42) @@ ("64" :> 64)
    @@ ("100" :> 100)

\* The INTEGER token of the numeral that writes n in decimal.
N(n) ==
    Token("INTEGER", "", DigitsOf(n))

\* The token of one lexeme.
T(lexeme) ==
    CASE lexeme \in DOMAIN Numeral -> N(Numeral[lexeme])
      [] lexeme = "=" -> Token("ASSIGN", lexeme, <<>>)
      [] lexeme = "+" -> Token("PLUS", lexeme, <<>>)
      [] lexeme = "-" -> Token("MINUS", lexeme, <<>>)
      [] lexeme = "*" -> Token("ASTER", lexeme, <<>>)
      [] lexeme = "/" -> Token("SLASH", lexeme, <<>>)
      [] lexeme = "%" -> Token("PERCENT", lexeme, <<>>)
      [] lexeme = "->" -> Token("ARROW", lexeme, <<>>)
      [] lexeme = "!" -> Token("BANG", lexeme, <<>>)
      [] lexeme = "<" -> Token("LT", lexeme, <<>>)
      [] lexeme = ">" -> Token("GT", lexeme, <<>>)
      [] lexeme = "==" -> Token("EQ", lexeme, <<>>)
      [] lexeme = "!=" -> Token("NEQ", lexeme, <<>>)
      [] lexeme = "," -> Token("COMMA", lexeme, <<>>)
      [] lexeme = ";" -> Token("SEMICOLON", lexeme, <<>>)
      [] lexeme = "(" -> Token("LPAREN", lexeme, <<>>)
      [] lexeme = ")" -> Token("RPAREN", lexeme, <<>>)
      [] lexeme = "{" -> Token("LBRACE", lexeme, <<>>)
      [] lexeme = "}" -> Token("RBRACE", lexeme, <<>>)
      [] lexeme = "[" -> Token("LBRACKET", lexeme, <<>>)
      [] lexeme = "]" -> Token("RBRACKET", lexeme, <<>>)
      [] lexeme = "|" -> Token("BAR", lexeme, <<>>)
      [] OTHER -> Token(TypeByLiteral(lexeme), lexeme, <<>>)

\* The token sequence of a sequence of lexemes.
Lex(lexemes) ==
    [i \in 1..Len(lexemes) |-> T(lexemes[i])]

(***************************************************************************)
(* AST nodes (ast package, as the parser builds and the evaluator reads    *)
(* them).                                                                  *)
(***************************************************************************)
NewProgram(statements) ==
    [node |-> "Program", Statements |-> statements]

NewVarStatement(identifier, expression) ==
    [node |-> "VarStatement", Identifier |-> identifier, Expression |-> expression]

NewReturnStatement(expression) ==
    [node |-> "ReturnStatement", Expression |-> expression]

NewExpressionStatement(expression) ==
    [node |-> "ExpressionStatement", Expression |-> expression]

NewBlockStatement(statements) ==
    [node |-> "BlockStatement", Statements |-> statements]

NewIntegerLiteral(v) ==
    [node |-> "IntegerLiteral", Value |-> v]

TRUE_NODE == [node |-> "BooleanLiteral", Bool |-> TRUE]

FALSE_NODE == [node |-> "BooleanLiteral", Bool |-> FALSE]

NewIdentifier(name) ==
    [node |-> "Identifier", Name |-> name]

NewPrefixExpression(operator, right) ==
    [node |-> "PrefixExpression", Operator |-> operator, Right |-> right]

NewInfixExpression(operator, left, right) ==
    [node |-> "InfixExpression", Operator |-> operator, Left |-> left, Right |-> right]

\* The alternative of an if expression without else: Go's nil.
NoBlock == [node |-> "nil"]

NewIfExpression(condition, consequence, alternative) ==
    [node |-> "IfExpression", Condition |-> condition,
     Consequence |-> consequence, Alternative |-> alternative]

NewFunctionLiteral(parameters, body) ==
    [node |-> "FunctionLiteral", Parameters |-> parameters, Body |-> body]

NewFunctionCall(function, arguments) ==
    [node |-> "FunctionCall", Function |-> function, Arguments |-> arguments]

NewArrayLiteral(elements) ==
    [node |-> "ArrayLiteral", Elements |-> elements]

NewIndexExpression(array, index) ==
    [node |-> "IndexExpression", Array |-> array, Index |-> index]

(***************************************************************************)
(* Parser (parser/parser.go).  The parser's state is the token sequence    *)
(* and the position pos of currentToken; peekToken is the token after it.  *)
(* A parse function returns the node and the position it leaves the parser *)
(* at, or a ParserError.                                                   *)
(***************************************************************************)
LOWEST == 0
EQUAL == 1
COMPARISON == 2
ARROW == 3
ADDITION == 4
MULTIPLICATION == 5
PREFIX == 6
CALL == 7
INDEX == 8

\* One precedence for the five arithmetic operators.
precedenceFlat(t) ==
    CASE t.Type = "ARROW" -> ARROW
      [] t.Type \in {"EQ", "NEQ"} -> EQUAL
      [] t.Type \in {"GT", "LT"} -> COMPARISON
      [] t.Type \in {"PLUS", "MINUS", "ASTER", "SLASH", "PERCENT"} -> ADDITION
      [] t.Type = "LPAREN" -> CALL
      [] t.Type = "LBRACKET" -> INDEX
      [] OTHER -> LOWEST

precedence(t) ==
    CASE t.Type = "ARROW" -> ARROW
      [] t.Type \in {"EQ", "NEQ"} -> EQUAL
      [] t.Type \in {"GT", "LT"} -> COMPARISON
      [] t.Type \in {"PLUS", "MINUS"} -> ADDITION
      [] t.Type \in {"ASTER", "SLASH", "PERCENT"} -> MULTIPLICATION
      [] t.Type = "LPAREN" -> CALL
      [] t.Type = "LBRACKET" -> INDEX
      [] OTHER -> LOWEST

\* The lexer yields EOF at and past the end of the input.
currentToken(toks, pos) ==
    IF pos <= Len(toks) THEN toks[pos] ELSE EOF

peekToken(toks, pos) ==
    currentToken(toks, pos + 1)

Parsed(n, pos) ==
    [err |-> FALSE, msg |-> "", node |-> n, pos |-> pos]

ParserError(msg) ==
    [err |-> TRUE, msg |-> msg, node |-> NoBlock, pos |-> 0]

consumeToken(pos) ==
    pos + 1

\* expectToken: the position after the expected peek token, or the error.
expectToken(toks, pos, tokenType) ==
    IF peekToken(toks, pos).Type # tokenType
    THEN ParserError("unexpected token")
    ELSE Parsed(NoBlock, consumeToken(pos))

currentPrecedence(toks, pos) ==
    precedence(currentToken(toks, pos))

peekPrecedence(toks, pos) ==
    precedence(peekToken(toks, pos))

RECURSIVE Atoi(_, _)
\* strconv.Atoi on a digit string: acc holds the value of the digits read.
Atoi(digits, acc) ==
    IF digits = <<>> THEN acc
    ELSE IF acc * 10 + Head(digits) > MaxInt THEN -1
    ELSE Atoi(Tail(digits), acc * 10 + Head(digits))

parseIntegerLiteral(toks, pos) ==
    LET v == Atoi(currentToken(toks, pos).Digits, 0)
    IN  IF v < 0 THEN ParserError("value out of range")
        ELSE Parsed(NewIntegerLiteral(v), pos)

parseBooleanLiteral(toks, pos) ==
    CASE currentToken(toks, pos).Type = "TRUE" -> Parsed(TRUE_NODE, pos)
      [] currentToken(toks, pos).Type = "FALSE" -> Parsed(FALSE_NODE, pos)
      [] OTHER -> ParserError("not boolean")

parseIdentifier(toks, pos) ==
    IF currentToken(toks, pos).Type # "IDENT"
    THEN ParserError("not identifier")
    ELSE Parsed(NewIdentifier(currentToken(toks, pos).Literal), pos)

RECURSIVE parseStatement(_, _)
RECURSIVE parseVarStatement(_, _)
RECURSIVE parseReturnStatement(_, _)
RECURSIVE parseExpressionStatement(_, _)
RECURSIVE parseBlockStatement(_, _)
RECURSIVE parseBlockStatementLoop(_, _, _)
RECURSIVE parseExpression(_, _, _)
RECURSIVE parseExpressionLoop(_, _, _, _)
RECURSIVE parsePrefixExpression(_, _)
RECURSIVE parseGroupedExpression(_, _)
RECURSIVE parseIfExpression(_, _)
RECURSIVE parseFunctionLiteral(_, _)
RECURSIVE parseArrayLiteral(_, _)
RECURSIVE parseInfixExpression(_, _, _)
RECURSIVE parseFunctionCall(_, _, _)
RECURSIVE parseIndexExpression(_, _, _)
RECURSIVE parseArrowExpression(_, _, _)
RECURSIVE parseCommaSeparatedExpressions(_, _, _)
RECURSIVE parseCommaSeparatedExpressionsLoop(_, _, _, _)
RECURSIVE parseOperator(_, _, _)
RECURSIVE parsePrefix(_, _)
RECURSIVE parseIfConsequence(_, _)
RECURSIVE parseIfAlternative(_, _, _)

parseStatement(toks, pos) ==
    CASE currentToken(toks, pos).Type = "VAR" -> parseVarStatement(toks, pos)
      [] currentToken(toks, pos).Type = "RETURN" -> parseReturnStatement(toks, pos)
      [] OTHER -> parseExpressionStatement(toks, pos)

\* The optional semicolon after a statement's expression.
skipSemicolon(toks, pos) ==
    IF peekToken(toks, pos).Type = "SEMICOLON" THEN consumeToken(pos) ELSE pos

\* In the parse functions the result of each step is bound as the parameter
\* of a local operator, which reads like the Go variable of that name.
parseVarStatement(toks, pos) ==
    LET Assign(identifier) ==
            IF identifier.err THEN identifier
            ELSE LET Expr(assign) ==
                         IF assign.err THEN assign
                         ELSE LET End(expression) ==
                                      IF expression.err THEN expression
                                      ELSE Parsed(NewVarStatement(identifier.node,
                                                                  expression.node),
                                                  skipSemicolon(toks, expression.pos))
                              IN  End(parseExpression(toks, consumeToken(assign.pos),
                                                      LOWEST))
                 IN  Expr(expectToken(toks, identifier.pos, "ASSIGN"))
    IN  Assign(parseIdentifier(toks, consumeToken(pos)))

parseReturnStatement(toks, pos) ==
    LET End(expression) ==
            IF expression.err THEN expression
            ELSE Parsed(NewReturnStatement(expression.node),
                        skipSemicolon(toks, expression.pos))
    IN  End(parseExpression(toks, consumeToken(pos), LOWEST))

parseExpressionStatement(toks, pos) ==
    LET End(expression) ==
            IF expression.err THEN expression
            ELSE Parsed(NewExpressionStatement(expression.node),
                        skipSemicolon(toks, expression.pos))
    IN  End(parseExpression(toks, pos, LOWEST))

\* The loop of parseBlockStatement: statements until currentToken is "}".
parseBlockStatementLoop(toks, pos, statements) ==
    IF currentToken(toks, pos).Type = "RBRACE"
    THEN Parsed(NewBlockStatement(statements), pos)
    ELSE LET More(statement) ==
                 IF statement.err THEN statement
                 ELSE parseBlockStatementLoop(toks, consumeToken(statement.pos),
                                              Append(statements, statement.node))
         IN  More(parseStatement(toks, pos))

\* Called with currentToken on the block's opening token, which it consumes
\* without looking at it.
parseBlockStatement(toks, pos) ==
    parseBlockStatementLoop(toks, consumeToken(pos), <<>>)

\* One turn of parseExpression's loop: currentToken (at pos) is the operator.
parseOperator(toks, pos, left) ==
    CASE currentToken(toks, pos).Type = "LPAREN" -> parseFunctionCall(toks, pos, left)
      [] currentToken(toks, pos).Type = "LBRACKET" -> parseIndexExpression(toks, pos, left)
      [] currentToken(toks, pos).Type = "ARROW" -> parseArrowExpression(toks, pos, left)
      [] OTHER -> parseInfixExpression(toks, pos, left)

\* The loop of parseExpression: operators that bind tighter than prec.
parseExpressionLoop(toks, pos, prec, left) ==
    IF ~(prec < peekPrecedence(toks, pos))
    THEN Parsed(left, pos)
    ELSE LET More(next) ==
                 IF next.err THEN next
                 ELSE parseExpressionLoop(toks, next.pos, prec, next.node)
         IN  More(parseOperator(toks, consumeToken(pos), left))

\* The switch of parseExpression on currentToken: the prefix form.
parsePrefix(toks, pos) ==
    LET type == currentToken(toks, pos).Type
    IN  CASE type = "INTEGER" -> parseIntegerLiteral(toks, pos)
          [] type \in {"TRUE", "FALSE"} -> parseBooleanLiteral(toks, pos)
          [] type = "IDENT" -> parseIdentifier(toks, pos)
          [] type \in {"MINUS", "BANG"} -> parsePrefixExpression(toks, pos)
          [] type = "LPAREN" -> parseGroupedExpression(toks, pos)
          [] type = "BAR" -> parseFunctionLiteral(toks, pos)
          [] type = "IF" -> parseIfExpression(toks, pos)
          [] type = "LBRACKET" -> parseArrayLiteral(toks, pos)
          [] OTHER -> ParserError("unable to parse prefix token")

parseExpression(toks, pos, prec) ==
    LET Loop(left) ==
            IF left.err THEN left
            ELSE parseExpressionLoop(toks, left.pos, prec, left.node)
    IN  Loop(parsePrefix(toks, pos))

parsePrefixExpression(toks, pos) ==
    LET End(right) ==
            IF right.err THEN right
            ELSE Parsed(NewPrefixExpression(currentToken(toks, pos).Literal,
                                            right.node), right.pos)
    IN  End(parseExpression(toks, consumeToken(pos), PREFIX))

parseGroupedExpression(toks, pos) ==
    LET Close(expression) ==
            IF expression.err THEN expression
            ELSE LET End(close) ==
                         IF close.err THEN close
                         ELSE Parsed(expression.node, close.pos)
                 IN  End(expectToken(toks, expression.pos, "RPAREN"))
    IN  Close(parseExpression(toks, consumeToken(pos), LOWEST))

\* The end of parseIfExpression, after the consequence block: without a peek
\* token "else" the expression is complete; with one, the "else" and the token
\* after it are consumed and a block is parsed.
parseIfAlternative(toks, condition, consequence) ==
    IF peekToken(toks, consequence.pos).Type # "ELSE"
    THEN Parsed(NewIfExpression(condition.node, consequence.node, NoBlock),
                consequence.pos)
    ELSE LET End(alternative) ==
                 IF alternative.err THEN alternative
                 ELSE Parsed(NewIfExpression(condition.node, consequence.node,
                                             alternative.node), alternative.pos)
         IN  End(parseBlockStatement(toks,
                                     consumeToken(consumeToken(consequence.pos))))

\* The middle of parseIfExpression, after the condition: ")" and "{" are
\* expected and the consequence block is parsed.
parseIfConsequence(toks, condition) ==
    LET Brace(close) ==
            IF close.err THEN close
            ELSE LET Block(brace) ==
                         IF brace.err THEN brace
                         ELSE LET Alt(consequence) ==
                                      IF consequence.err THEN consequence
                                      ELSE parseIfAlternative(toks, condition,
                                                              consequence)
                              IN  Alt(parseBlockStatement(toks, brace.pos))
                 IN  Block(expectToken(toks, close.pos, "LBRACE"))
    IN  Brace(expectToken(toks, condition.pos, "RPAREN"))

parseIfExpression(toks, pos) ==
    LET Cond(open) ==
            IF open.err THEN open
            ELSE LET Cons(condition) ==
                         IF condition.err THEN condition
                         ELSE parseIfConsequence(toks, condition)
                 IN  Cons(parseExpression(toks, consumeToken(open.pos), LOWEST))
    IN  Cond(expectToken(toks, pos, "LPAREN"))

\* The parameters of a function literal: every expression an Identifier.
AllIdentifiers(expressions) ==
    \A i \in 1..Len(expressions) : expressions[i].node = "Identifier"

parseFunctionLiteral(toks, pos) ==
    LET Params(expressions) ==
            IF expressions.err THEN expressions
            ELSE IF ~AllIdentifiers(expressions.node)
            THEN ParserError("unable to parse function parameter")
            ELSE LET Block(brace) ==
                         IF brace.err THEN brace
                         ELSE LET End(body) ==
                                      IF body.err THEN body
                                      ELSE Parsed(NewFunctionLiteral(expressions.node,
                                                                     body.node),
                                                  body.pos)
                              IN  End(parseBlockStatement(toks, brace.pos))
                 IN  Block(expectToken(toks, expressions.pos, "LBRACE"))
    IN  Params(parseCommaSeparatedExpressions(toks, pos, "BAR"))

parseArrayLiteral(toks, pos) ==
    LET End(elements) ==
            IF elements.err THEN elements
            ELSE Parsed(NewArrayLiteral(elements.node), elements.pos)
    IN  End(parseCommaSeparatedExpressions(toks, pos, "RBRACKET"))

parseInfixExpression(toks, pos, left) ==
    LET End(right) ==
            IF right.err THEN right
            ELSE Parsed(NewInfixExpression(currentToken(toks, pos).Literal, left,
                                           right.node), right.pos)
    IN  End(parseExpression(toks, consumeToken(pos), currentPrecedence(toks, pos)))

parseFunctionCall(toks, pos, left) ==
    LET End(arguments) ==
            IF arguments.err THEN arguments
            ELSE Parsed(NewFunctionCall(left, arguments.node), arguments.pos)
    IN  End(parseCommaSeparatedExpressions(toks, pos, "RPAREN"))

parseIndexExpression(toks, pos, left) ==
    LET Close(index) ==
            IF index.err THEN index
            ELSE LET End(close) ==
                         IF close.err THEN close
                         ELSE Parsed(NewIndexExpression(left, index.node), close.pos)
                 IN  End(expectToken(toks, index.pos, "RBRACKET"))
    IN  Close(parseExpression(toks, consumeToken(pos), LOWEST))

\* The left operand added after the call's arguments instead of before them.
appendArgument(left, rightCall) ==
    NewFunctionCall(rightCall.Function, Append(rightCall.Arguments, left))

\* rightCall.Arguments = append([]ast.Expression{left}, rightCall.Arguments...)
prependArgument(left, rightCall) ==
    NewFunctionCall(rightCall.Function, <<left>> \o rightCall.Arguments)

parseArrowExpression(toks, pos, left) ==
    LET End(right) ==
            IF right.err THEN right
            ELSE IF right.node.node # "FunctionCall"
            THEN ParserError("right of '->' should be function call")
            ELSE Parsed(prependArgument(left, right.node), right.pos)
    IN  End(parseExpression(toks, consumeToken(pos), ARROW))

\* The loop of parseCommaSeparatedExpressions: "," expression until the end
\* token is the peek token, and then the end token.
parseCommaSeparatedExpressionsLoop(toks, pos, endTokenType, expressions) ==
    IF peekToken(toks, pos).Type = endTokenType
    THEN LET End(close) ==
                 IF close.err THEN close ELSE Parsed(expressions, close.pos)
         IN  End(expectToken(toks, pos, endTokenType))
    ELSE LET Item(comma) ==
                 IF comma.err THEN comma
                 ELSE LET More(expression) ==
                              IF expression.err THEN expression
                              ELSE parseCommaSeparatedExpressionsLoop(toks,
                                       expression.pos, endTokenType,
                                       Append(expressions, expression.node))
                      IN  More(parseExpression(toks, consumeToken(comma.pos), LOWEST))
         IN  Item(expectToken(toks, pos, "COMMA"))

parseCommaSeparatedExpressions(toks, pos, endTokenType) ==
    IF currentToken(toks, consumeToken(pos)).Type = endTokenType
    THEN Parsed(<<>>, consumeToken(pos))
    ELSE LET Rest(first) ==
                 IF first.err THEN first
                 ELSE parseCommaSeparatedExpressionsLoop(toks, first.pos,
                                                         endTokenType, <<first.node>>)
         IN  Rest(parseExpression(toks, consumeToken(pos), LOWEST))

RECURSIVE ParseProgramLoop(_, _, _)
\* The loop of ParseProgram: statements until currentToken is EOF.
ParseProgramLoop(toks, pos, statements) ==
    IF currentToken(toks, pos).Type = "EOF"
    THEN Parsed(NewProgram(statements), pos)
    ELSE LET More(statement) ==
                 IF statement.err THEN statement
                 ELSE ParseProgramLoop(toks, consumeToken(statement.pos),
                                       Append(statements, statement.node))
         IN  More(parseStatement(toks, pos))

\* parser.New(lexer) leaves currentToken on the first token.
ParseProgram(toks) ==
    ParseProgramLoop(toks, 1, <<>>)

(***************************************************************************)
(* Runtime values (object package, as the evaluator builds and inspects    *)
(* them).  TRUE_OBJ, FALSE_OBJ and NULL_OBJ are the three singletons; nil  *)
(* is Go's nil interface value, which is none of them.                     *)
(***************************************************************************)
Integer(v) ==
    [type |-> "INTEGER", Value |-> v]

TRUE_OBJ == [type |-> "BOOLEAN", Bool |-> TRUE]

FALSE_OBJ == [type |-> "BOOLEAN", Bool |-> FALSE]

NULL_OBJ == [type |-> "NULL"]

nil == [type |-> "nil"]

Array(elements) ==
    [type |-> "ARRAY", Elements |-> elements]

Function(parameters, body, env) ==
    [type |-> "FUNCTION", Parameters |-> parameters, Body |-> body, Env |-> env]

BuiltinFunction(name) ==
    [type |-> "BUILTIN", Builtin |-> name]

ReturnValue(v) ==
    [type |-> "RETURN_VALUE", Wrapped |-> v]

(***************************************************************************)
(* Environments (object.Environment).  The heap is the sequence of the     *)
(* frames allocated so far; a frame is referred to by its index, and outer *)
(* is 0 for the root frame.                                                *)
(***************************************************************************)
EmptyStore == [n \in {} |-> nil]

\* object.NewEnvironment(): the heap that holds the root frame alone.
NewEnvironment == <<[store |-> EmptyStore, outer |-> 0]>>

\* object.NewEnclosedEnvironment(outer): the heap with a fresh frame whose
\* parent is outer; the new frame is the last one.
NewEnclosedEnvironment(h, outer) ==
    Append(h, [store |-> EmptyStore, outer |-> outer])

\* env.Set(name, value): writes the innermost frame only.
Set(h, env, name, value) ==
    [h EXCEPT ![env].store = (name :> value) @@ @]

RECURSIVE Get(_, _, _)
\* env.Get(name): the binding of the innermost frame of the chain that binds
\* name, nil when no frame does.
Get(h, env, name) ==
    IF name \in DOMAIN h[env].store THEN h[env].store[name]
    ELSE IF h[env].outer = 0 THEN nil
    ELSE Get(h, h[env].outer, name)

(***************************************************************************)
(* Evaluator (evaluator/evaluator.go).  The evaluator's state st is the    *)
(* heap of frames and the lines puts has written.  An eval function        *)
(* returns (value, nil) as Value, (nil, err) as EvalError, and a Go        *)
(* run-time panic as Panic; each carries the state it leaves.              *)
(***************************************************************************)
Value(v, st) ==
    [kind |-> "ok", val |-> v, msg |-> "", st |-> st]

EvalError(msg, st) ==
    [kind |-> "err", val |-> nil, msg |-> msg, st |-> st]

Panic(msg, st) ==
    [kind |-> "panic", val |-> nil, msg |-> msg, st |-> st]

RECURSIVE Eval(_, _, _)
RECURSIVE evalProgram(_, _, _)
RECURSIVE evalProgramLoop(_, _, _, _, _)
RECURSIVE evalBlockStatement(_, _, _)
RECURSIVE evalBlockStatementLoop(_, _, _, _, _)
RECURSIVE evalVarStatement(_, _, _)
RECURSIVE evalReturnStatement(_, _, _)
RECURSIVE evalExpressionStatement(_, _, _)
RECURSIVE evalExpression(_, _, _)
RECURSIVE evalPrefixExpression(_, _, _)
RECURSIVE evalInfixExpression(_, _, _)
RECURSIVE evalIfExpression(_, _, _)
RECURSIVE evalFunctionLiteral(_, _, _)
RECURSIVE evalFunctionCall(_, _, _)
RECURSIVE evalArguments(_, _, _, _, _)
RECURSIVE evalArrayLiteral(_, _, _)
RECURSIVE evalArrayLiteralLoop(_, _, _, _, _)
RECURSIVE evalIndexExpression(_, _, _)
RECURSIVE builtinMapLoop(_, _, _, _, _)
RECURSIVE builtinFilterLoop(_, _, _, _, _)
RECURSIVE builtinReduceLoop(_, _, _, _, _)

builtinNames == {"puts", "len", "map", "filter", "reduce"}

\* puts: fmt.Println of each argument; returns (nil, nil).
builtinPuts(args, st) ==
    Value(nil, [st EXCEPT !.out = @ \o args])

builtinLen(args, st) ==
    IF Len(args) # 1 THEN EvalError("number of arguments for len wrong", st)
    ELSE IF args[1].type # "ARRAY"
    THEN EvalError("argument type for len wrong", st)
    ELSE Value(Integer(Len(args[1].Elements)), st)

\* The loop of map: element i of the array onwards.
builtinMapLoop(elements, i, function, convertedElems, st) ==
    IF i > Len(elements) THEN Value(Array(convertedElems), st)
    ELSE LET h == NewEnclosedEnvironment(st.heap, function.Env)
             enclosedEnv == Len(h)
             bound == [st EXCEPT !.heap = Set(h, enclosedEnv,
                           function.Parameters[1].Name, elements[i])]
             r == Eval(function.Body, enclosedEnv, bound)
         IN  IF r.kind # "ok" THEN r
             ELSE builtinMapLoop(elements, i + 1, function,
                                 Append(convertedElems, r.val), r.st)

builtinMap(args, st) ==
    IF Len(args) # 2 THEN EvalError("number of arguments for map wrong", st)
    ELSE IF args[1].type # "ARRAY"
    THEN EvalError("first argument type for map wrong", st)
    ELSE IF args[2].type # "FUNCTION"
    THEN EvalError("second argument type for map wrong", st)
    ELSE IF Len(args[2].Parameters) # 1
    THEN EvalError("number of parameters of map function wrong", st)
    ELSE builtinMapLoop(args[1].Elements, 1, args[2], <<>>, st)

\* The loop of filter: element i of the array onwards.
builtinFilterLoop(elements, i, function, filteredElems, st) ==
    IF i > Len(elements) THEN Value(Array(filteredElems), st)
    ELSE LET h == NewEnclosedEnvironment(st.heap, function.Env)
             enclosedEnv == Len(h)
             bound == [st EXCEPT !.heap = Set(h, enclosedEnv,
                           function.Parameters[1].Name, elements[i])]
             r == Eval(function.Body, enclosedEnv, bound)
         IN  IF r.kind # "ok" THEN r
             ELSE builtinFilterLoop(elements, i + 1, function,
                      IF r.val # NULL_OBJ /\ r.val # FALSE_OBJ
                      THEN Append(filteredElems, elements[i])
                      ELSE filteredElems,
                      r.st)

builtinFilter(args, st) ==
    IF Len(args) # 2 THEN EvalError("number of arguments for filter wrong", st)
    ELSE IF args[1].type # "ARRAY"
    THEN EvalError("first argument type for filter wrong", st)
    ELSE IF args[2].type # "FUNCTION"
    THEN EvalError("second argument type for filter wrong", st)
    ELSE IF Len(args[2].Parameters) # 1
    THEN EvalError("number of parameters of filter function wrong", st)
    ELSE builtinFilterLoop(args[1].Elements, 1, args[2], <<>>, st)

\* The loop of reduce: element i of the array onwards.
builtinReduceLoop(elements, i, function, accumulated, st) ==
    IF i > Len(elements) THEN Value(accumulated, st)
    ELSE LET h == NewEnclosedEnvironment(st.heap, function.Env)
             enclosedEnv == Len(h)
             bound == [st EXCEPT !.heap =
                           Set(Set(h, enclosedEnv,
                                   function.Parameters[1].Name, accumulated),
                               enclosedEnv, function.Parameters[2].Name, elements[i])]
             r == Eval(function.Body, enclosedEnv, bound)
         IN  IF r.kind # "ok" THEN r
             ELSE builtinReduceLoop(elements, i + 1, function, r.val, r.st)

builtinReduce(args, st) ==
    IF Len(args) # 3 THEN EvalError("number of arguments for reduce wrong", st)
    ELSE IF args[1].type # "ARRAY"
    THEN EvalError("first argument type for reduce wrong", st)
    ELSE IF args[3].type # "FUNCTION"
    THEN EvalError("second argument type for reduce wrong", st)
    ELSE IF Len(args[3].Parameters) # 2
    THEN EvalError("number of parameters of reduce function wrong", st)
    ELSE builtinReduceLoop(args[1].Elements, 1, args[3], args[2], st)

\* builtinFunctions[name].Fn(args...)
builtinFunctions(name, args, st) ==
    CASE name = "puts" -> builtinPuts(args, st)
      [] name = "len" -> builtinLen(args, st)
      [] name = "map" -> builtinMap(args, st)
      [] name = "filter" -> builtinFilter(args, st)
      [] name = "reduce" -> builtinReduce(args, st)

Eval(n, env, st) ==
    CASE n.node = "Program" -> evalProgram(n, env, st)
      [] n.node = "BlockStatement" -> evalBlockStatement(n, env, st)
      [] n.node = "VarStatement" -> evalVarStatement(n, env, st)
      [] n.node = "ReturnStatement" -> evalReturnStatement(n, env, st)
      [] n.node = "ExpressionStatement" -> evalExpressionStatement(n, env, st)
      [] OTHER -> EvalError("unable to eval node", st)

\* The loop of evalProgram: statement i onwards; a ReturnValue ends the
\* program with its payload.
evalProgramLoop(statements, i, env, last, st) ==
    IF i > Len(statements) THEN Value(last, st)
    ELSE LET r == Eval(statements[i], env, st)
         IN  IF r.kind # "ok" THEN r
             ELSE IF r.val.type = "RETURN_VALUE" THEN Value(r.val.Wrapped, r.st)
             ELSE evalProgramLoop(statements, i + 1, env, r.val, r.st)

evalProgram(prog, env, st) ==
    evalProgramLoop(prog.Statements, 1, env, nil, st)

\* The loop of evalBlockStatement: statement i onwards; a ReturnValue ends
\* the block and is returned as it is.
evalBlockStatementLoop(statements, i, env, last, st) ==
    IF i > Len(statements) THEN Value(last, st)
    ELSE LET r == Eval(statements[i], env, st)
         IN  IF r.kind # "ok" THEN r
             ELSE IF r.val.type = "RETURN_VALUE" THEN Value(r.val, r.st)
             ELSE evalBlockStatementLoop(statements, i + 1, env, r.val, r.st)

evalBlockStatement(blockStatement, env, st) ==
    evalBlockStatementLoop(blockStatement.Statements, 1, env, nil, st)

evalVarStatement(varStatement, env, st) ==
    LET r == evalExpression(varStatement.Expression, env, st)
    IN  IF r.kind # "ok" THEN r
        ELSE Value(nil, [r.st EXCEPT !.heap =
                             Set(@, env, varStatement.Identifier.Name, r.val)])

evalReturnStatement(returnStatement, env, st) ==
    LET r == evalExpression(returnStatement.Expression, env, st)
    IN  IF r.kind # "ok" THEN r
        ELSE Value(ReturnValue(r.val), r.st)

evalExpressionStatement(expressionStatement, env, st) ==
    evalExpression(expressionStatement.Expression, env, st)

evalIdentifier(expression, env, st) ==
    LET value == Get(st.heap, env, expression.Name)
    IN  IF value = nil
        THEN IF expression.Name \in builtinNames
             THEN Value(BuiltinFunction(expression.Name), st)
             ELSE EvalError("undefined identifier", st)
        ELSE Value(value, st)

evalExpression(expression, env, st) ==
    CASE expression.node = "IntegerLiteral" -> Value(Integer(expression.Value), st)
      [] expression.node = "BooleanLiteral" ->
            IF expression.Bool THEN Value(TRUE_OBJ, st) ELSE Value(FALSE_OBJ, st)
      [] expression.node = "Identifier" -> evalIdentifier(expression, env, st)
      [] expression.node = "PrefixExpression" -> evalPrefixExpression(expression, env, st)
      [] expression.node = "InfixExpression" -> evalInfixExpression(expression, env, st)
      [] expression.node = "IfExpression" -> evalIfExpression(expression, env, st)
      [] expression.node = "FunctionLiteral" -> evalFunctionLiteral(expression, env, st)
      [] expression.node = "FunctionCall" -> evalFunctionCall(expression, env, st)
      [] expression.node = "ArrayLiteral" -> evalArrayLiteral(expression, env, st)
      [] expression.node = "IndexExpression" -> evalIndexExpression(expression, env, st)
      [] OTHER -> EvalError("unable to eval expression", st)

evalPrefixExpression(prefixExpression, env, st) ==
    LET r == evalExpression(prefixExpression.Right, env, st)
        right == r.val
    IN  IF r.kind # "ok" THEN r
        ELSE CASE right.type = "INTEGER" ->
                    CASE prefixExpression.Operator = "-" ->
                            Value(Integer(Wrap(0 - right.Value)), r.st)
                      [] prefixExpression.Operator = "!" -> Value(FALSE_OBJ, r.st)
                      [] OTHER -> EvalError("unknown prefix operator for integer", r.st)
               [] right.type = "BOOLEAN" ->
                    CASE prefixExpression.Operator = "!" ->
                            IF right = TRUE_OBJ THEN Value(FALSE_OBJ, r.st)
                            ELSE Value(TRUE_OBJ, r.st)
                      [] OTHER -> EvalError("unknown prefix operator for boolean", r.st)
               [] OTHER -> EvalError("invalid type for prefix expression", r.st)

\* The Integer case of evalInfixExpression.
evalIntegerInfix(operator, l, r, st) ==
    CASE operator = "+" -> Value(Integer(Wrap(l + r)), st)
      [] operator = "-" -> Value(Integer(Wrap(l - r)), st)
      [] operator = "*" -> Value(Integer(Wrap(l * r)), st)
      [] operator = "/" ->
            IF r = 0 THEN Panic("integer divide by zero", st)
            ELSE Value(Integer(GoQuo(l, r)), st)
      [] operator = "%" ->
            IF r = 0 THEN Panic("integer divide by zero", st)
            ELSE Value(Integer(GoRem(l, r)), st)
      [] operator = ">" -> Value(IF l > r THEN TRUE_OBJ ELSE FALSE_OBJ, st)
      [] operator = "<" -> Value(IF l < r THEN TRUE_OBJ ELSE FALSE_OBJ, st)
      [] operator = "==" -> Value(IF l = r THEN TRUE_OBJ ELSE FALSE_OBJ, st)
      [] operator = "!=" -> Value(IF l # r THEN TRUE_OBJ ELSE FALSE_OBJ, st)
      [] OTHER -> EvalError("unknown infix operator for integer", st)

\* The Boolean case of evalInfixExpression.
evalBooleanInfix(operator, l, r, st) ==
    CASE operator = "==" -> Value(IF l = r THEN TRUE_OBJ ELSE FALSE_OBJ, st)
      [] operator = "!=" -> Value(IF l # r THEN TRUE_OBJ ELSE FALSE_OBJ, st)
      [] OTHER -> EvalError("unknown infix operator for boolean", st)

evalInfixExpression(infixExpression, env, st) ==
    LET l == evalExpression(infixExpression.Left, env, st)
        r == evalExpression(infixExpression.Right, env, l.st)
        left == l.val
        right == r.val
    IN  IF l.kind # "ok" THEN l
        ELSE IF r.kind # "ok" THEN r
        ELSE IF left = nil \/ right = nil
        THEN Panic("nil pointer dereference", r.st)
        ELSE IF left.type # right.type
        THEN EvalError("type mismatch in infix expression", r.st)
        ELSE CASE left.type = "INTEGER" ->
                    evalIntegerInfix(infixExpression.Operator, left.Value,
                                     right.Value, r.st)
               [] left.type = "BOOLEAN" ->
                    evalBooleanInfix(infixExpression.Operator, left, right, r.st)
               [] OTHER -> EvalError("invalid type for infix expression", r.st)

\* Integer 0 counted as falsy besides FALSE and NULL.
evalIfExpressionZeroFalsy(ifExpression, env, st) ==
    LET c == evalExpression(ifExpression.Condition, env, st)
        condition == c.val
    IN  IF c.kind # "ok" THEN c
        ELSE IF condition = FALSE_OBJ \/ condition = NULL_OBJ \/ condition = Integer(0)
        THEN IF ifExpression.Alternative = NoBlock THEN Value(NULL_OBJ, c.st)
             ELSE Eval(ifExpression.Alternative, env, c.st)
        ELSE Eval(ifExpression.Consequence, env, c.st)

evalIfExpression(ifExpression, env, st) ==
    LET c == evalExpression(ifExpression.Condition, env, st)
        condition == c.val
    IN  IF c.kind # "ok" THEN c
        ELSE IF condition = FALSE_OBJ \/ condition = NULL_OBJ
        THEN IF ifExpression.Alternative = NoBlock THEN Value(NULL_OBJ, c.st)
             ELSE Eval(ifExpression.Alternative, env, c.st)
        ELSE Eval(ifExpression.Consequence, env, c.st)

\* Capture by snapshot: the function holds a copy of the frame its literal
\* was evaluated in, taken at that moment.
evalFunctionLiteralSnapshot(functionLiteral, env, st) ==
    Value(Function(functionLiteral.Parameters, functionLiteral.Body,
                   Len(st.heap) + 1),
          [st EXCEPT !.heap = Append(@, @[env])])

evalFunctionLiteral(functionLiteral, env, st) ==
    Value(Function(functionLiteral.Parameters, functionLiteral.Body, env), st)

unwrapReturnValue(obj) ==
    IF obj.type = "RETURN_VALUE" THEN obj.Wrapped ELSE obj

\* The first loop of evalFunctionCall: argument i onwards, left to right; the
\* value returned is the sequence of the evaluated arguments.
evalArguments(arguments, i, env, evaluatedArgs, st) ==
    IF i > Len(arguments) THEN Value(evaluatedArgs, st)
    ELSE LET r == evalExpression(arguments[i], env, st)
         IN  IF r.kind # "ok" THEN r
             ELSE evalArguments(arguments, i + 1, env,
                                Append(evaluatedArgs, r.val), r.st)

RECURSIVE bindParameters(_, _, _, _, _)
\* The second loop of evalFunctionCall: enclosedEnv.Set of parameter i onwards.
bindParameters(h, enclosedEnv, parameters, evaluatedArgs, i) ==
    IF i > Len(evaluatedArgs) THEN h
    ELSE bindParameters(Set(h, enclosedEnv, parameters[i].Name, evaluatedArgs[i]),
                        enclosedEnv, parameters, evaluatedArgs, i + 1)

\* Dynamic scoping: the call's frame is enclosed by the caller's environment
\* instead of the one the function captured.
applyFunctionInCallerEnv(functionCall, function, evaluatedArgs, env, st) ==
    IF Len(functionCall.Arguments) # Len(function.Parameters)
    THEN IF Len(functionCall.Arguments) = 0
         THEN Panic("index out of range [0] with length 0", st)
         ELSE EvalError("number of arguments wrong", st)
    ELSE LET h == NewEnclosedEnvironment(st.heap, env)
             enclosedEnv == Len(h)
             bound == [st EXCEPT !.heap = bindParameters(h, enclosedEnv,
                           function.Parameters, evaluatedArgs, 1)]
             r == Eval(function.Body, enclosedEnv, bound)
         IN  IF r.kind # "ok" THEN r
             ELSE Value(unwrapReturnValue(r.val), r.st)

\* No frame of its own: the parameters are bound and the body is evaluated in
\* the environment the function captured.
applyFunctionInCapturedEnv(functionCall, function, evaluatedArgs, env, st) ==
    IF Len(functionCall.Arguments) # Len(function.Parameters)
    THEN IF Len(functionCall.Arguments) = 0
         THEN Panic("index out of range [0] with length 0", st)
         ELSE EvalError("number of arguments wrong", st)
    ELSE LET bound == [st EXCEPT !.heap = bindParameters(st.heap, function.Env,
                           function.Parameters, evaluatedArgs, 1)]
             r == Eval(function.Body, function.Env, bound)
         IN  IF r.kind # "ok" THEN r
             ELSE Value(unwrapReturnValue(r.val), r.st)

\* The Function case of evalFunctionCall.
applyFunction(functionCall, function, evaluatedArgs, env, st) ==
    IF Len(functionCall.Arguments) # Len(function.Parameters)
    THEN IF Len(functionCall.Arguments) = 0
         THEN Panic("index out of range [0] with length 0", st)
         ELSE EvalError("number of arguments wrong", st)
    ELSE LET h == NewEnclosedEnvironment(st.heap, function.Env)
             enclosedEnv == Len(h)
             bound == [st EXCEPT !.heap = bindParameters(h, enclosedEnv,
                           function.Parameters, evaluatedArgs, 1)]
             r == Eval(function.Body, enclosedEnv, bound)
         IN  IF r.kind # "ok" THEN r
             ELSE Value(unwrapReturnValue(r.val), r.st)

\* The callee expression is evaluated before the arguments.
evalFunctionCallCalleeFirst(functionCall, env, st) ==
    LET f == evalExpression(functionCall.Function, env, st)
        a == evalArguments(functionCall.Arguments, 1, env, <<>>, f.st)
        function == f.val
    IN  IF f.kind # "ok" THEN f
        ELSE IF a.kind # "ok" THEN a
        ELSE CASE function.type = "FUNCTION" ->
                    applyFunction(functionCall, function, a.val, env, a.st)
               [] function.type = "BUILTIN" ->
                    builtinFunctions(function.Builtin, a.val, a.st)
               [] OTHER -> EvalError("unable to convert to function", a.st)

evalFunctionCall(functionCall, env, st) ==
    LET a == evalArguments(functionCall.Arguments, 1, env, <<>>, st)
        f == evalExpression(functionCall.Function, env, a.st)
        function == f.val
    IN  IF a.kind # "ok" THEN a
        ELSE IF f.kind # "ok" THEN f
        ELSE CASE function.type = "FUNCTION" ->
                    applyFunction(functionCall, function, a.val, env, f.st)
               [] function.type = "BUILTIN" ->
                    builtinFunctions(function.Builtin, a.val, f.st)
               [] OTHER -> EvalError("unable to convert to function", f.st)

\* The loop of evalArrayLiteral: element i onwards, left to right.
evalArrayLiteralLoop(elements, i, env, evaluatedElements, st) ==
    IF i > Len(elements) THEN Value(Array(evaluatedElements), st)
    ELSE LET r == evalExpression(elements[i], env, st)
         IN  IF r.kind # "ok" THEN r
             ELSE evalArrayLiteralLoop(elements, i + 1, env,
                                       Append(evaluatedElements, r.val), r.st)

evalArrayLiteral(arrayLiteral, env, st) ==
    evalArrayLiteralLoop(arrayLiteral.Elements, 1, env, <<>>, st)

\* The bound check lets the index len(array.Elements) through; the read of
\* that element is a runtime panic.
evalIndexExpressionPastEnd(indexExpression, env, st) ==
    LET a == evalExpression(indexExpression.Array, env, st)
        i == evalExpression(indexExpression.Index, env, a.st)
    IN  IF a.kind # "ok" THEN a
        ELSE IF a.val.type # "ARRAY" THEN EvalError("unable to convert to array", a.st)
        ELSE IF i.kind # "ok" THEN i
        ELSE IF i.val.type # "INTEGER"
        THEN EvalError("unable to convert to integer", i.st)
        ELSE IF i.val.Value < 0 \/ Len(a.val.Elements) < i.val.Value
        THEN EvalError("index out of range", i.st)
        ELSE IF i.val.Value + 1 \in DOMAIN a.val.Elements
        THEN Value(a.val.Elements[i.val.Value + 1], i.st)
        ELSE Panic("index out of range", i.st)

evalIndexExpression(indexExpression, env, st) ==
    LET a == evalExpression(indexExpression.Array, env, st)
        i == evalExpression(indexExpression.Index, env, a.st)
    IN  IF a.kind # "ok" THEN a
        ELSE IF a.val.type # "ARRAY" THEN EvalError("unable to convert to array", a.st)
        ELSE IF i.kind # "ok" THEN i
        ELSE IF i.val.type # "INTEGER"
        THEN EvalError("unable to convert to integer", i.st)
        ELSE IF i.val.Value < 0 \/ Len(a.val.Elements) <= i.val.Value
        THEN EvalError("index out of range", i.st)
        ELSE Value(a.val.Elements[i.val.Value + 1], i.st)

(***************************************************************************)
(* The sources the interpreter is run on.  Each family is written as its   *)
(* lexemes and covers the cases of one part of the language.               *)
(***************************************************************************)
MaxDepth == 2
MaxArity == 2
MaxArrowArgs == 2
MaxOps == 2
MaxStatements == 3
MaxElements == 2
MaxCalls == 3

RECURSIVE CommaJoin(_)
\* The items, each a lexeme sequence, separated by commas.
CommaJoin(items) ==
    IF items = <<>> THEN <<>>
    ELSE IF Len(items) = 1 THEN items[1]
    ELSE items[1] \o <<",">> \o CommaJoin(Tail(items))

\* All sequences over S of length at most n.
SeqsUpTo(S, n) ==
    UNION {[1..k -> S] : k \in 0..n}

Shapes == {"then", "else", "var"}

RECURSIVE ReturnBody(_)
\* A function body in which "return 7" sits inside one if block per shape,
\* outermost first, and a puts(9) follows it in every enclosing block.  The if
\* is a statement of its own ("then": its consequence holds the return, "else":
\* its alternative does) or the expression of a var statement ("var").
ReturnBody(shapes) ==
    IF shapes = <<>> THEN <<"return", "7", ";", "puts", "(", "9", ")", ";">>
    ELSE CASE Head(shapes) = "then" ->
                <<"if", "(", "true", ")", "{">> \o ReturnBody(Tail(shapes))
                \o <<"}", "puts", "(", "9", ")", ";">>
           [] Head(shapes) = "else" ->
                <<"if", "(", "false", ")", "{", "puts", "(", "8", ")", ";", "}",
                  "else", "{">> \o ReturnBody(Tail(shapes))
                \o <<"}", "puts", "(", "9", ")", ";">>
           [] Head(shapes) = "var" ->
                <<"var", "x", "=", "if", "(", "true", ")", "{">>
                \o ReturnBody(Tail(shapes))
                \o <<"}", ";", "puts", "(", "9", ")", ";">>

\* var r = || { <body> }();
ReturnProgram(shapes) ==
    Lex(<<"var", "r", "=", "|", "|", "{">> \o ReturnBody(shapes)
        \o <<"}", "(", ")", ";">>)

ReturnPrograms == {ReturnProgram(s) : s \in SeqsUpTo(Shapes, MaxDepth)}

\* Sources in which a block that ends in a return is the operand of something
\* other than a statement of a function body.
LeakPrograms ==
    {Lex(<<"var", "x", "=", "if", "(", "true", ")", "{", "return", "1", ";", "}", ";">>),
     Lex(<<"var", "y", "=", "[", "if", "(", "true", ")", "{", "return", "1", ";", "}",
           "]", ";">>),
     Lex(<<"map", "(", "[", "1", ",", "2", "]", ",", "|", "x", "|", "{", "return",
           "x", ";", "}", ")", ";">>),
     Lex(<<"var", "y", "=", "reduce", "(", "[", "1", "]", ",", "0", ",", "|", "a",
           ",", "x", "|", "{", "return", "x", ";", "}", ")", ";">>),
     Lex(<<"puts", "(", "if", "(", "true", ")", "{", "return", "1", ";", "}", ")", ";">>),
     Lex(<<"var", "f", "=", "|", "|", "{", "return", "if", "(", "true", ")", "{",
           "return", "1", ";", "}", ";", "}", ";", "var", "y", "=", "f", "(", ")", ";">>),
     Lex(<<"1", "+", "if", "(", "true", ")", "{", "return", "1", ";", "}", ";">>)}

ScopeVals == {"1", "7"}

\* var y = v; var f = || { y; }; var g = |y| { f(); }; g(w);
ScopeShadow(v, w) ==
    Lex(<<"var", "y", "=", v, ";", "var", "f", "=", "|", "|", "{", "y", ";", "}", ";",
          "var", "g", "=", "|", "y", "|", "{", "f", "(", ")", ";", "}", ";",
          "g", "(", w, ")", ";">>)

\* var f = || { y; }; var g = |y| { f(); }; g(w);
ScopeCallerOnly(w) ==
    Lex(<<"var", "f", "=", "|", "|", "{", "y", ";", "}", ";",
          "var", "g", "=", "|", "y", "|", "{", "f", "(", ")", ";", "}", ";",
          "g", "(", w, ")", ";">>)

\* var mk = |x| { || { x; } }; var x = w; mk(v)();
ScopeMaker(v, w) ==
    Lex(<<"var", "mk", "=", "|", "x", "|", "{", "|", "|", "{", "x", ";", "}", "}", ";",
          "var", "x", "=", w, ";", "mk", "(", v, ")", "(", ")", ";">>)

\* var mk = |x| { || { x; } }; var c = mk(v); var h = |x| { c(); }; h(w);
ScopeClosure(v, w) ==
    Lex(<<"var", "mk", "=", "|", "x", "|", "{", "|", "|", "{", "x", ";", "}", "}", ";",
          "var", "c", "=", "mk", "(", v, ")", ";",
          "var", "h", "=", "|", "x", "|", "{", "c", "(", ")", ";", "}", ";",
          "h", "(", w, ")", ";">>)

ScopePrograms ==
    {ScopeShadow(v, w) : v \in ScopeVals, w \in ScopeVals}
    \cup {ScopeCallerOnly(w) : w \in ScopeVals}
    \cup {ScopeMaker(v, w) : v \in ScopeVals, w \in ScopeVals}
    \cup {ScopeClosure(v, w) : v \in ScopeVals, w \in ScopeVals}

FrameVals == {"1", "2"}

\* var a = v; || { var a = w; a; }();
FrameShadow(v, w) ==
    Lex(<<"var", "a", "=", v, ";", "|", "|", "{", "var", "a", "=", w, ";", "a", ";",
          "}", "(", ")", ";">>)

\* var a = v; || { if (true) { if (true) { var a = w; } } a; }();
FrameNested(v, w) ==
    Lex(<<"var", "a", "=", v, ";", "|", "|", "{", "if", "(", "true", ")", "{",
          "if", "(", "true", ")", "{", "var", "a", "=", w, ";", "}", "}", "a", ";",
          "}", "(", ")", ";">>)

\* var mk = |a| { || { var a = w; a; } }; var c = mk(v); c();
FrameCaptured(v, w) ==
    Lex(<<"var", "mk", "=", "|", "a", "|", "{", "|", "|", "{", "var", "a", "=", w, ";",
          "a", ";", "}", "}", ";", "var", "c", "=", "mk", "(", v, ")", ";",
          "c", "(", ")", ";">>)

\* var a = v; |a| { a; }(w);
FrameParameter(v, w) ==
    Lex(<<"var", "a", "=", v, ";", "|", "a", "|", "{", "a", ";", "}", "(", w, ")", ";">>)

\* var a = v; <builtin>([w], ...|a| { var x = a; x; });
FrameBuiltin(builtin, v, w) ==
    Lex(<<"var", "a", "=", v, ";", builtin, "(", "[", w, "]", ",">>
        \o (IF builtin = "reduce"
            THEN <<"0", ",", "|", "x", ",", "a", "|">>
            ELSE <<"|", "a", "|">>)
        \o <<"{", "var", "x", "=", "a", ";", "x", ";", "}", ")", ";">>)

\* || { var a = v; || { var a = w; }(); a; }();
FrameInner(v, w) ==
    Lex(<<"|", "|", "{", "var", "a", "=", v, ";", "|", "|", "{", "var", "a", "=", w,
          ";", "}", "(", ")", ";", "a", ";", "}", "(", ")", ";">>)

FramePrograms ==
    UNION {{FrameShadow(v, w), FrameNested(v, w), FrameCaptured(v, w),
            FrameParameter(v, w), FrameInner(v, w),
            FrameBuiltin("map", v, w), FrameBuiltin("filter", v, w),
            FrameBuiltin("reduce", v, w)} : v \in FrameVals, w \in FrameVals}

ParamNames == <<"a", "b", "c", "d">>

\* |a, b, ...| { puts(9); 1; }(1, 1, ...) with m parameters and n arguments.
ArityProgram(n, m) ==
    Lex(<<"|">> \o CommaJoin([i \in 1..m |-> <<ParamNames[i]>>])
        \o <<"|", "{", "puts", "(", "9", ")", ";", "1", ";", "}", "(">>
        \o CommaJoin([i \in 1..n |-> <<"1">>]) \o <<")", ";">>)

ArityPrograms == {ArityProgram(n, m) : n \in 0..MaxArity, m \in 0..MaxArity}

DivOperators == {"/", "%"}

DivDividends == {"0", "1", "7"}

\* l / 0; or l % 0;
DivProgram(l, operator) ==
    Lex(<<l, operator, "0", ";">>)

DivPrograms == {DivProgram(l, operator) : l \in DivDividends, operator \in DivOperators}

\* || { }();
EmptyBodyCall == Lex(<<"|", "|", "{", "}", "(", ")", ";">>)

\* if (|| { }()) { 1; } else { 2; };
EmptyBodyCondition ==
    Lex(<<"if", "(", "|", "|", "{", "}", "(", ")", ")", "{", "1", ";", "}",
          "else", "{", "2", ";", "}", ";">>)

\* if (if (false) { 1; }) { 1; } else { 2; };
NullCondition ==
    Lex(<<"if", "(", "if", "(", "false", ")", "{", "1", ";", "}", ")", "{", "1", ";",
          "}", "else", "{", "2", ";", "}", ";">>)

EmptyBodyPrograms == {EmptyBodyCall, EmptyBodyCondition, NullCondition}

\* The conditions of the if expressions: integers, booleans, arrays, a
\* function, a builtin, NULL (an if without else on a false condition) and
\* operators that yield booleans.
Conditions ==
    {<<"0">>, <<"1">>, <<"true">>, <<"false">>, <<"[", "]">>, <<"[", "0", "]">>,
     <<"|", "|", "{", "}">>, <<"len">>,
     <<"if", "(", "false", ")", "{", "1", ";", "}">>,
     <<"!", "true">>, <<"!", "0">>, <<"!", "false">>,
     <<"1", "<", "2">>, <<"1", ">", "2">>, <<"0", "==", "0">>, <<"-", "0">>}

\* if (c) { puts(1); 10; } else { puts(2); 20; }; with or without the else.
IfProgram(c, withElse) ==
    Lex(<<"if", "(">> \o c \o <<")", "{", "puts", "(", "1", ")", ";", "10", ";", "}">>
        \o (IF withElse
            THEN <<"else", "{", "puts", "(", "2", ")", ";", "20", ";", "}">>
            ELSE <<>>)
        \o <<";">>)

IfPrograms == {IfProgram(c, e) : c \in Conditions, e \in BOOLEAN}

\* The functions the arrow sources call: sub and inc are defined first.
ArrowPrelude ==
    <<"var", "sub", "=", "|", "x", ",", "y", "|", "{", "x", "-", "y", ";", "}", ";",
      "var", "inc", "=", "|", "x", "|", "{", "x", "+", "1", ";", "}", ";">>

ArrowLefts ==
    {<<"7">>, <<"1", "+", "2">>, <<"[", "1", "]">>, <<"-", "3">>,
     <<"inc", "(", "1", ")">>}

ArrowCallees == {"puts", "sub", "inc", "len"}

ArrowArgs == {<<"2">>, <<"3", "*", "2">>}

\* The source "a -> f(args)" with the source "f(a, args)" it stands for.
ArrowCase(a, f, args) ==
    [src |-> Lex(ArrowPrelude \o a \o <<"->", f, "(">> \o CommaJoin(args) \o <<")", ";">>),
     alt |-> Lex(ArrowPrelude \o <<f, "(">> \o CommaJoin(<<a>> \o args) \o <<")", ";">>)]

\* The source "a -> f(x) -> g(y)" with "g(f(a, x), y)".
ArrowChain(a, f, x, g, y) ==
    [src |-> Lex(ArrowPrelude \o a \o <<"->", f, "(">> \o CommaJoin(x)
                 \o <<")", "->", g, "(">> \o CommaJoin(y) \o <<")", ";">>),
     alt |-> Lex(ArrowPrelude \o <<g, "(", f, "(">> \o CommaJoin(<<a>> \o x)
                 \o <<")">> \o (IF y = <<>> THEN <<>> ELSE <<",">>) \o CommaJoin(y)
                 \o <<")", ";">>)]

ArrowCases ==
    {ArrowCase(a, f, args) :
        a \in ArrowLefts, f \in ArrowCallees, args \in SeqsUpTo(ArrowArgs, MaxArrowArgs)}
    \cup {ArrowChain(a, f, x, g, y) :
            a \in {<<"7">>, <<"1", "+", "2">>}, f \in {"sub", "inc"},
            x \in SeqsUpTo({<<"2">>}, 1), g \in {"sub", "puts"},
            y \in SeqsUpTo({<<"3">>}, 1)}

\* Sources whose right operand of -> is not a function call.
ArrowNonCalls ==
    {Lex(ArrowPrelude \o <<"7", "->">> \o r \o <<";">>) :
        r \in {<<"inc">>, <<"1">>, <<"inc", "(", ")", "+", "1">>,
               <<"inc", "(", ")", "[", "0", "]">>, <<"[", "1", "]">>,
               <<"-", "inc", "(", ")">>, <<"|", "x", "|", "{", "x", ";", "}">>,
               <<"true">>}}

ArithOperators == {"+", "-", "*", "/", "%"}

ArithOperands == {<<"7">>, <<"64">>, <<"-", "1">>}

RECURSIVE ArithChain(_, _, _, _)
\* operands[1] operators[1] operands[2] ... with operands open and open + 1
\* in parentheses when open > 0, from operand i on.
ArithChain(operands, operators, open, i) ==
    (IF i = open /\ open > 0 THEN <<"(">> ELSE <<>>)
    \o operands[i]
    \o (IF i = open + 1 /\ open > 0 THEN <<")">> ELSE <<>>)
    \o (IF i = Len(operands) THEN <<>>
        ELSE <<operators[i]>> \o ArithChain(operands, operators, open, i + 1))

\* The expression statements of at most MaxOps operators, with one adjacent
\* pair of operands in parentheses or none.
ArithPrograms ==
    {Lex(ArithChain(operands, operators, open, 1) \o <<";">>) :
        <<operands, operators, open>> \in
            UNION {[1..(k + 1) -> ArithOperands] \X [1..k -> ArithOperators] \X (0..k) :
                   k \in 0..MaxOps}}

StatementKinds == {"puts", "var", "expr", "return", "ifreturn"}

\* The numeral of i, for the i of a statement position.
NumeralOf(i) ==
    CHOOSE n \in DOMAIN Numeral : Numeral[n] = i

\* The top-level statement at position i: each writes, binds or yields i.
TopStatement(kind, i) ==
    CASE kind = "puts" -> <<"puts", "(", NumeralOf(i), ")", ";">>
      [] kind = "var" -> <<"var", ParamNames[i], "=", NumeralOf(i), ";">>
      [] kind = "expr" -> <<NumeralOf(i), ";">>
      [] kind = "return" -> <<"return", NumeralOf(i), ";">>
      [] kind = "ifreturn" ->
            <<"if", "(", "true", ")", "{", "return", NumeralOf(i), ";", "}", ";">>

RECURSIVE TopStatements(_, _)
\* The statements of the kinds from position i on.
TopStatements(kinds, i) ==
    IF i > Len(kinds) THEN <<>>
    ELSE TopStatement(kinds[i], i) \o TopStatements(kinds, i + 1)

TopProgram(kinds) ==
    Lex(TopStatements(kinds, 1))

TopPrograms == {TopProgram(kinds) : kinds \in SeqsUpTo(StatementKinds, MaxStatements)}

\* The defining expressions of the var statements: an Integer, a Boolean, an
\* array, a function, NULL (an else-less if on false), and two calls that
\* return without a value (puts, a function with an empty body).
IdentValues ==
    {<<"42">>, <<"true">>, <<"[", "1", "]">>, <<"|", "|", "{", "1", ";", "}">>,
     <<"if", "(", "false", ")", "{", "1", ";", "}">>,
     <<"puts", "(", "1", ")">>, <<"|", "|", "{", "}", "(", ")">>}

\* var x = e; x;
IdentSame(e) ==
    Lex(<<"var", "x", "=">> \o e \o <<";", "x", ";">>)

\* var x = e; || { x; }();
IdentChained(e) ==
    Lex(<<"var", "x", "=">> \o e \o <<";", "|", "|", "{", "x", ";", "}", "(", ")", ";">>)

\* var x = 7; || { var x = e; x; }();
IdentInner(e) ==
    Lex(<<"var", "x", "=", "7", ";", "|", "|", "{", "var", "x", "=">> \o e
        \o <<";", "x", ";", "}", "(", ")", ";">>)

\* var len = e; len;
IdentShadowsBuiltin(e) ==
    Lex(<<"var", "len", "=">> \o e \o <<";", "len", ";">>)

\* var x = 1; y;
IdentUndefined == Lex(<<"var", "x", "=", "1", ";", "y", ";">>)

\* var x = 1; len;
IdentBuiltin == Lex(<<"var", "x", "=", "1", ";", "len", ";">>)

IdentPrograms ==
    UNION {{IdentSame(e), IdentChained(e), IdentInner(e), IdentShadowsBuiltin(e)} :
           e \in IdentValues}
    \cup {IdentUndefined, IdentBuiltin}

\* The arrays handed to the higher-order built-ins: every sequence of at
\* most MaxElements of these integers.
ElementValues == 1..3

Arrays == SeqsUpTo(ElementValues, MaxElements)

\* [a1, ..., an]
ArrayLiteralOf(a) ==
    <<"[">> \o CommaJoin([k \in 1..Len(a) |-> <<NumeralOf(a[k])>>]) \o <<"]">>

\* A function literal whose body is the expression as an expression statement,
\* or as a return statement.
FunctionOf(params, expression, returns) ==
    <<"|">> \o CommaJoin([k \in 1..Len(params) |-> <<params[k]>>]) \o <<"|", "{">>
    \o (IF returns THEN <<"return">> ELSE <<>>) \o expression \o <<";", "}">>

\* The unary functions handed to map.
MapFunctions ==
    {FunctionOf(<<"x">>, <<"x", "+", "1">>, returns) : returns \in BOOLEAN}

\* The unary functions handed to filter; the third yields NULL or x.
FilterFunctions ==
    {FunctionOf(<<"x">>, <<"x", "<", "2">>, returns) : returns \in BOOLEAN}
    \cup {FunctionOf(<<"x">>,
                     <<"if", "(", "x", "<", "2", ")", "{", "x", ";", "}">>, FALSE)}

\* The binary functions handed to reduce.
ReduceFunctions ==
    {FunctionOf(<<"acc", "x">>, <<"acc", "-", "x">>, returns) : returns \in BOOLEAN}

\* map(a, f);
MapProgram(a, f) ==
    Lex(<<"map", "(">> \o ArrayLiteralOf(a) \o <<",">> \o f \o <<")", ";">>)

\* filter(a, f);
FilterProgram(a, f) ==
    Lex(<<"filter", "(">> \o ArrayLiteralOf(a) \o <<",">> \o f \o <<")", ";">>)

\* reduce(a, 10, f);
ReduceProgram(a, f) ==
    Lex(<<"reduce", "(">> \o ArrayLiteralOf(a) \o <<",", "10", ",">> \o f
        \o <<")", ";">>)

HigherOrderPrograms ==
    {MapProgram(a, f) : a \in Arrays, f \in MapFunctions}
    \cup {FilterProgram(a, f) : a \in Arrays, f \in FilterFunctions}
    \cup {ReduceProgram(a, f) : a \in Arrays, f \in ReduceFunctions}

\* The expressions put between the delimiters.
DelimitedBodies ==
    {<<"2">>, <<"-", "2">>, <<"f", "(", "2", ")">>}

\* Complete sources, each with the positions of the delimiters its grammar
\* requires: ( after if, ) after the condition, { of the consequence, { after
\* else; { of a function body; ) of a group; ) of a call; ] of an index; ] of
\* an array.
DelimitedForms ==
    UNION {{[toks |-> <<"if", "(", "true", ")", "{">> \o b
                      \o <<";", "}", "else", "{">> \o b \o <<";", "}", ";">>,
             delimiters |-> {2, 4, 5, Len(b) + 9}],
            [toks |-> <<"|", "x", "|", "{">> \o b \o <<";", "}", ";">>,
             delimiters |-> {4}],
            [toks |-> <<"(">> \o b \o <<")", ";">>, delimiters |-> {Len(b) + 2}],
            [toks |-> <<"f", "(">> \o b \o <<")", ";">>, delimiters |-> {Len(b) + 3}],
            [toks |-> <<"a", "[">> \o b \o <<"]", ";">>, delimiters |-> {Len(b) + 3}],
            [toks |-> <<"[">> \o b \o <<"]", ";">>, delimiters |-> {Len(b) + 2}]} :
           b \in DelimitedBodies}

\* What stands in the place of the missing delimiter: nothing, or another token.
Substitutes == {<<>>, <<"(">>, <<"}">>}

\* The lexemes with the one at position k replaced.
Without(toks, k, substitute) ==
    SubSeq(toks, 1, k - 1) \o substitute \o SubSeq(toks, k + 1, Len(toks))

MissingDelimiterPrograms ==
    UNION {UNION {{Lex(Without(form.toks, k, substitute)) :
                      substitute \in Substitutes \ {<<form.toks[k]>>}} :
                  k \in form.delimiters} :
           form \in DelimitedForms}

DelimitedPrograms == {Lex(form.toks) : form \in DelimitedForms}

\* The indices tried on an array: from -1 to one past its length.
Indices == -1..(MaxElements + 1)

IndexLexemes(i) ==
    IF i < 0 THEN <<"-", NumeralOf(-i)>> ELSE <<NumeralOf(i)>>

\* [a1, ..., an][i];
IndexProgram(a, i) ==
    Lex(ArrayLiteralOf(a) \o <<"[">> \o IndexLexemes(i) \o <<"]", ";">>)

IndexPrograms == {IndexProgram(a, i) : a \in Arrays, i \in Indices}

\* What an argument of the call does: write its position, or fail in one of
\* two ways.
ArgumentKinds == {"puts", "mismatch", "negation"}

\* What the callee expression does: write 7 and yield the function, fail, or
\* yield a value that is no function.
CalleeKinds == {"function", "undefined", "integer"}

\* Argument k of the call.
CallArgument(kind, k) ==
    CASE kind = "puts" -> <<"puts", "(", NumeralOf(k), ")">>
      [] kind = "mismatch" -> <<NumeralOf(k), "+", "true">>
      [] kind = "negation" -> <<"-", "true">>

CalleeExpression(kind) ==
    CASE kind = "function" -> <<"mk", "(", ")">>
      [] kind = "undefined" -> <<"u">>
      [] kind = "integer" -> <<"5">>

\* var mk = || { puts(7); |a, ...| { puts(9); body; }; }; callee(arguments);
\* where the body is 0, or an index out of range.
CallOrderProgram(arguments, callee, bodyFails) ==
    Lex(<<"var", "mk", "=", "|", "|", "{", "puts", "(", "7", ")", ";", "|">>
        \o CommaJoin([k \in 1..Len(arguments) |-> <<ParamNames[k]>>])
        \o <<"|", "{", "puts", "(", "9", ")", ";">>
        \o (IF bodyFails THEN <<"[", "1", "]", "[", "5", "]">> ELSE <<"0">>)
        \o <<";", "}", ";", "}", ";">>
        \o CalleeExpression(callee) \o <<"(">>
        \o CommaJoin([k \in 1..Len(arguments) |-> CallArgument(arguments[k], k)])
        \o <<")", ";">>)

CallOrderPrograms ==
    {CallOrderProgram(arguments, callee, bodyFails) :
        arguments \in SeqsUpTo(ArgumentKinds, MaxArity),
        callee \in CalleeKinds, bodyFails \in BOOLEAN}

\* var f = || { y; }; var y = 5; f();
LateBindingProgram ==
    Lex(<<"var", "f", "=", "|", "|", "{", "y", ";", "}", ";",
          "var", "y", "=", "5", ";", "f", "(", ")", ";">>)

\* var f = || { y; }; f(); var y = 5;
EarlyCallProgram ==
    Lex(<<"var", "f", "=", "|", "|", "{", "y", ";", "}", ";",
          "f", "(", ")", ";", "var", "y", "=", "5", ";">>)

\* |n| { if (n == 0) { base; } else { step; }; }
Recursive(base, step) ==
    <<"|", "n", "|", "{", "if", "(", "n", "==", "0", ")", "{">> \o base
    \o <<";", "}", "else", "{">> \o step \o <<";", "}", ";", "}">>

\* var f = |n| { if (n == 0) { 0; } else { f(n - 1) + n; }; }; f(k);
SumProgram(k) ==
    Lex(<<"var", "f", "=">>
        \o Recursive(<<"0">>, <<"f", "(", "n", "-", "1", ")", "+", "n">>)
        \o <<";", "f", "(", NumeralOf(k), ")", ";">>)

\* var e = |n| { if (n == 0) { true; } else { o(n - 1); }; };
\* var o = |n| { if (n == 0) { false; } else { e(n - 1); }; }; e(k);
ParityProgram(k) ==
    Lex(<<"var", "e", "=">>
        \o Recursive(<<"true">>, <<"o", "(", "n", "-", "1", ")">>)
        \o <<";", "var", "o", "=">>
        \o Recursive(<<"false">>, <<"e", "(", "n", "-", "1", ")">>)
        \o <<";", "e", "(", NumeralOf(k), ")", ";">>)

CapturePrograms ==
    {LateBindingProgram, EarlyCallProgram}
    \cup {SumProgram(k) : k \in 0..MaxCalls}
    \cup {ParityProgram(k) : k \in 0..MaxCalls}

Sources ==
    ReturnPrograms \cup LeakPrograms \cup ScopePrograms \cup FramePrograms
    \cup ArityPrograms \cup DivPrograms \cup EmptyBodyPrograms \cup IfPrograms
    \cup ArrowNonCalls \cup TopPrograms \cup IdentPrograms
    \cup HigherOrderPrograms \cup DelimitedPrograms \cup MissingDelimiterPrograms
    \cup IndexPrograms \cup CallOrderPrograms \cup CapturePrograms

(***************************************************************************)
(* The interpreter run end to end, as the tests' eval helper drives it:    *)
(* parse the source, then evaluate the program in a fresh root             *)
(* environment.  evalProgram's loop takes one top-level statement a step.  *)
(***************************************************************************)
NoResult == [kind |-> "none", val |-> nil, msg |-> ""]

Outcome(r) ==
    [kind |-> r.kind, val |-> r.val, msg |-> r.msg]

\* The whole run of a source as one value: what it returns and what it writes.
Run(toks) ==
    LET p == ParseProgram(toks)
        r == Eval(p.node, 1, [heap |-> NewEnvironment, out |-> <<>>])
    IN  IF p.err THEN [kind |-> "parse_error", val |-> nil, msg |-> p.msg, out |-> <<>>]
        ELSE [kind |-> r.kind, val |-> r.val, msg |-> r.msg, out |-> r.st.out]

InitOn(source, other) ==
    /\ src = source
    /\ alt = other
    /\ pc = "parse"
    /\ program = NoBlock
    /\ heap = NewEnvironment
    /\ out = <<>>
    /\ idx = 1
    /\ evaluated = nil
    /\ result = NoResult

\* p.ParseProgram(): a ParserError ends the run.
ParseSource ==
    /\ pc = "parse"
    /\ LET p == ParseProgram(src)
       IN  IF p.err
           THEN /\ pc' = "done"
                /\ result' = [kind |-> "parse_error", val |-> nil, msg |-> p.msg]
                /\ UNCHANGED program
           ELSE /\ pc' = "eval"
                /\ program' = p.node
                /\ UNCHANGED result
    /\ UNCHANGED <<src, alt, heap, out, idx, evaluated>>

\* The loop goes on after a statement that evaluated to a ReturnValue.
evalProgramStepPastReturn ==
    /\ pc = "eval"
    /\ idx <= Len(program.Statements)
    /\ LET r == Eval(program.Statements[idx], 1, [heap |-> heap, out |-> out])
       IN  /\ heap' = r.st.heap
           /\ out' = r.st.out
           /\ IF r.kind # "ok"
              THEN /\ pc' = "done"
                   /\ result' = Outcome(r)
                   /\ UNCHANGED <<idx, evaluated>>
              ELSE /\ evaluated' = unwrapReturnValue(r.val)
                   /\ idx' = idx + 1
                   /\ UNCHANGED <<pc, result>>
    /\ UNCHANGED <<src, alt, program>>

\* One turn of evalProgram's loop: the next top-level statement.
evalProgramStep ==
    /\ pc = "eval"
    /\ idx <= Len(program.Statements)
    /\ LET r == Eval(program.Statements[idx], 1, [heap |-> heap, out |-> out])
       IN  /\ heap' = r.st.heap
           /\ out' = r.st.out
           /\ IF r.kind # "ok"
              THEN /\ pc' = "done"
                   /\ result' = Outcome(r)
                   /\ UNCHANGED <<idx, evaluated>>
              ELSE IF r.val.type = "RETURN_VALUE"
              THEN /\ pc' = "done"
                   /\ result' = [kind |-> "ok", val |-> r.val.Wrapped, msg |-> ""]
                   /\ evaluated' = r.val
                   /\ UNCHANGED idx
              ELSE /\ evaluated' = r.val
                   /\ idx' = idx + 1
                   /\ UNCHANGED <<pc, result>>
    /\ UNCHANGED <<src, alt, program>>

\* evalProgram's loop is over: return evaluated, nil.
evalProgramReturn ==
    /\ pc = "eval"
    /\ idx > Len(program.Statements)
    /\ pc' = "done"
    /\ result' = [kind |-> "ok", val |-> evaluated, msg |-> ""]
    /\ UNCHANGED <<src, alt, program, heap, out, idx, evaluated>>

Next ==
    \/ ParseSource
    \/ evalProgramStep
    \/ evalProgramReturn

Init ==
    \/ \E source \in Sources : InitOn(source, <<>>)
    \/ \E c \in ArrowCases : InitOn(c.src, c.alt)

Spec == Init /\ [][Next]_vars

(***************************************************************************)
(* Properties of the interpreter, read off the states of a run: the root   *)
(* frame is heap[1], out holds the values puts was given, result is what   *)
(* the run returned.                                                       *)
(***************************************************************************)
RECURSIVE HoldsReturnValue(_)
\* v is a ReturnValue wrapper or an array with one among its elements.
HoldsReturnValue(v) ==
    \/ v.type = "RETURN_VALUE"
    \/ /\ v.type = "ARRAY"
       /\ \E i \in 1..Len(v.Elements) : HoldsReturnValue(v.Elements[i])

\* The root frame binds name to value.
RootBinds(name, value) ==
    /\ name \in DOMAIN heap[1].store
    /\ heap[1].store[name] = value

\* C1: a return executed at any block depth of a function body (directly, in
\* the blocks of nested if/else statements, or in the block of an if that a
\* var statement evaluates) ends the body: no later statement of an enclosing
\* block runs (nothing is written by the puts that follow) and the call
\* yields the payload, 7, which the caller binds to r.
ReturnUnwindsToCallSite ==
    (pc = "done" /\ src \in ReturnPrograms) =>
        /\ result.kind = "ok"
        /\ RootBinds("r", Integer(7))
        /\ out = <<>>

\* The return sits two if statements deep and the call yields its payload.
ReturnUnwindsThroughIfStatements ==
    /\ pc = "done"
    /\ src = ReturnProgram(<<"then", "else">>)
    /\ RootBinds("r", Integer(7))
    /\ out = <<>>

\* C2: in every state of every run no ReturnValue wrapper is bound to a name
\* in any frame, has been passed to puts as an argument, sits in an array, or
\* is the result of the program.
ReturnValueNeverEscapes ==
    /\ \A f \in 1..Len(heap) : \A name \in DOMAIN heap[f].store :
          ~HoldsReturnValue(heap[f].store[name])
    /\ \A i \in 1..Len(out) : ~HoldsReturnValue(out[i])
    /\ ~HoldsReturnValue(result.val)

\* A function returned through nested if statements and the caller's binding
\* is the bare payload.
ReturnValueUnwrappedAtCall ==
    /\ pc = "done"
    /\ src = ReturnProgram(<<"else", "then">>)
    /\ RootBinds("r", Integer(7))
    /\ ReturnValueNeverEscapes

\* The run is over and returned the value v.
Returned(v) ==
    /\ pc = "done"
    /\ result = [kind |-> "ok", val |-> v, msg |-> ""]

\* The run is over and returned an EvalError with the message msg.
Failed(msg) ==
    /\ pc = "done"
    /\ result = [kind |-> "err", val |-> nil, msg |-> msg]

\* Frame f exists, is enclosed by frame outer and binds exactly these names.
Frame(f, outer, store) ==
    /\ f <= Len(heap)
    /\ heap[f].outer = outer
    /\ heap[f].store = store

\* C3: a function's free identifiers resolve in the environment its literal
\* was evaluated in, at every call site: a function value bound at top level
\* holds the root environment, the frame of every call is enclosed by the
\* callee's captured environment (never by the caller's frame), the body reads
\* the captured binding v where the caller binds w to the same name, and a
\* name bound only in the caller's frame is undefined in the body.
LexicalScoping ==
    \A v \in ScopeVals, w \in ScopeVals :
        /\ src = ScopeShadow(v, w) =>
              /\ "f" \in DOMAIN heap[1].store => heap[1].store["f"].Env = 1
              /\ Len(heap) >= 3 =>
                    /\ Frame(2, 1, [y |-> Integer(Numeral[w])])
                    /\ Frame(3, heap[1].store["f"].Env, EmptyStore)
              /\ pc = "done" => Returned(Integer(Numeral[v])) /\ Len(heap) = 3
        /\ src = ScopeCallerOnly(w) =>
              /\ Len(heap) >= 3 =>
                    /\ Frame(2, 1, [y |-> Integer(Numeral[w])])
                    /\ Frame(3, 1, EmptyStore)
              /\ pc = "done" => Failed("undefined identifier") /\ Len(heap) = 3
        /\ src = ScopeMaker(v, w) =>
              /\ Len(heap) >= 3 =>
                    /\ Frame(2, 1, [x |-> Integer(Numeral[v])])
                    /\ Frame(3, 2, EmptyStore)
              /\ pc = "done" => Returned(Integer(Numeral[v])) /\ Len(heap) = 3
        /\ src = ScopeClosure(v, w) =>
              /\ "c" \in DOMAIN heap[1].store => heap[1].store["c"].Env = 2
              /\ Len(heap) >= 4 =>
                    /\ Frame(2, 1, [x |-> Integer(Numeral[v])])
                    /\ Frame(3, 1, [x |-> Integer(Numeral[w])])
                    /\ Frame(4, heap[1].store["c"].Env, EmptyStore)
              /\ pc = "done" => Returned(Integer(Numeral[v])) /\ Len(heap) = 4

\* A closure made by mk(7) was called from a frame that binds x to 1 and
\* returned 7.
ClosureReadCapturedBinding ==
    /\ src = ScopeClosure("7", "1")
    /\ Returned(Integer(7))
    /\ Frame(3, 1, [x |-> Integer(1)])
    /\ Frame(4, 2, EmptyStore)

\* The names the top-level statement about to be evaluated binds in the root
\* frame: the identifier of a var statement.
RootWrites ==
    IF program.Statements[idx].node = "VarStatement"
    THEN {program.Statements[idx].Identifier.Name}
    ELSE {}

\* Every frame that exists before the step is the same after it, but for the
\* root bindings of the names in written.
FramesKept(written) ==
    /\ Len(heap') >= Len(heap)
    /\ \A f \in 2..Len(heap) : heap'[f] = heap[f]
    /\ heap'[1].outer = heap[1].outer
    /\ DOMAIN heap'[1].store = DOMAIN heap[1].store \cup written
    /\ \A name \in DOMAIN heap[1].store \ written :
          heap'[1].store[name] = heap[1].store[name]

\* The frames and the result of the sources that call a function whose body
\* binds a name the caller or the captured environment binds too.
FrameOutcome(v, w) ==
    /\ src = FrameShadow(v, w) =>
          /\ Frame(1, 0, [a |-> Integer(Numeral[v])])
          /\ Frame(2, 1, [a |-> Integer(Numeral[w])])
          /\ Returned(Integer(Numeral[w]))
    /\ src = FrameNested(v, w) =>
          /\ Frame(1, 0, [a |-> Integer(Numeral[v])])
          /\ Frame(2, 1, [a |-> Integer(Numeral[w])])
          /\ Returned(Integer(Numeral[w]))
    /\ src = FrameCaptured(v, w) =>
          /\ DOMAIN heap[1].store = {"mk", "c"}
          /\ Frame(2, 1, [a |-> Integer(Numeral[v])])
          /\ Frame(3, 2, [a |-> Integer(Numeral[w])])
          /\ Returned(Integer(Numeral[w]))
    /\ src = FrameParameter(v, w) =>
          /\ Frame(1, 0, [a |-> Integer(Numeral[v])])
          /\ Frame(2, 1, [a |-> Integer(Numeral[w])])
          /\ Returned(Integer(Numeral[w]))
    /\ src = FrameInner(v, w) =>
          /\ Frame(1, 0, EmptyStore)
          /\ Frame(2, 1, [a |-> Integer(Numeral[v])])
          /\ Frame(3, 2, [a |-> Integer(Numeral[w])])
          /\ Returned(Integer(Numeral[v]))
    /\ \A builtin \in {"map", "filter"} : src = FrameBuiltin(builtin, v, w) =>
          /\ Frame(1, 0, [a |-> Integer(Numeral[v])])
          /\ Frame(2, 1, [a |-> Integer(Numeral[w]), x |-> Integer(Numeral[w])])
          /\ Returned(Array(<<Integer(Numeral[w])>>))
    /\ src = FrameBuiltin("reduce", v, w) =>
          /\ Frame(1, 0, [a |-> Integer(Numeral[v])])
          /\ Frame(2, 1, [a |-> Integer(Numeral[w]), x |-> Integer(Numeral[w])])
          /\ Returned(Integer(Numeral[w]))

\* C4: every call, direct or made by map, filter or reduce, binds its
\* parameters and the names of the var statements of its body (at any block
\* depth) in a frame of its own, enclosed by the callee's captured
\* environment; the frames that exist before a top-level statement is
\* evaluated keep their bindings, except the root binding a top-level var
\* statement itself makes.
CallFrameIsolation ==
    [][/\ (pc = "eval" /\ idx <= Len(program.Statements)) => FramesKept(RootWrites)
       /\ (pc' = "done" /\ src \in FramePrograms) =>
             \A v \in FrameVals, w \in FrameVals : FrameOutcome(v, w)']_vars

\* The body bound a to 2 in the frame of the call and the root still binds
\* a to 1.
ShadowedOuterBindingKept ==
    /\ src = FrameShadow("1", "2")
    /\ Returned(Integer(2))
    /\ Frame(1, 0, [a |-> Integer(1)])
    /\ Frame(2, 1, [a |-> Integer(2)])

\* C5: a call of a function of m parameters with n # m arguments returns an
\* EvalError, for every n and m from 0 on, and the body is not evaluated (its
\* puts writes nothing).
ArityMismatchIsEvalError ==
    \A n \in 0..MaxArity, m \in 0..MaxArity :
        (pc = "done" /\ src = ArityProgram(n, m) /\ n # m) =>
            /\ Failed("number of arguments wrong")
            /\ out = <<>>

\* Two arguments to a function of one parameter: an EvalError.
TooManyArgumentsIsEvalError ==
    /\ src = ArityProgram(2, 1)
    /\ Failed("number of arguments wrong")
    /\ out = <<>>

\* C6: l / 0 and l % 0 on Integers return an EvalError.
DivisionByZeroIsEvalError ==
    (pc = "done" /\ src \in DivPrograms) => result.kind = "err"

\* C7: the call of a function with an empty body yields NULL, the value of
\* an else-less if on a false condition, and as the condition of an if it
\* selects the alternative.
EmptyBodyYieldsNull ==
    /\ (pc = "done" /\ src = EmptyBodyCall) => Returned(NULL_OBJ)
    /\ (pc = "done" /\ src = EmptyBodyCondition) => Returned(Integer(2))

\* NULL from an else-less if on a false condition selects the alternative.
NullSelectsAlternative ==
    /\ src = NullCondition
    /\ Returned(Integer(2))

\* The conditions that are neither FALSE nor NULL.
TruthyConditions ==
    {<<"0">>, <<"1">>, <<"true">>, <<"[", "]">>, <<"[", "0", "]">>,
     <<"|", "|", "{", "}">>, <<"len">>, <<"!", "false">>, <<"1", "<", "2">>,
     <<"0", "==", "0">>, <<"-", "0">>}

\* The value of the condition c evaluated on its own.
ConditionValue(c) ==
    Run(Lex(c \o <<";">>)).val

\* C8: in if (c) { puts(1); 10; } else { puts(2); 20; } the condition is
\* falsy iff its value is FALSE or NULL (0, arrays, functions are truthy); a
\* truthy condition evaluates the consequence alone (puts wrote 1, the value
\* is 10), a falsy one the alternative alone (2 and 20), and a falsy one
\* without an else evaluates neither block and yields NULL.
IfSelectsOneBranch ==
    \A c \in Conditions, withElse \in BOOLEAN :
        (pc = "done" /\ src = IfProgram(c, withElse)) =>
            /\ c \in TruthyConditions <=>
                  ~(ConditionValue(c) = FALSE_OBJ \/ ConditionValue(c) = NULL_OBJ)
            /\ IF c \in TruthyConditions
               THEN Returned(Integer(10)) /\ out = <<Integer(1)>>
               ELSE IF withElse
               THEN Returned(Integer(20)) /\ out = <<Integer(2)>>
               ELSE Returned(NULL_OBJ) /\ out = <<>>

\* if (0) ... else ... evaluated its consequence alone.
ZeroSelectsConsequence ==
    /\ src = IfProgram(<<"0">>, TRUE)
    /\ Returned(Integer(10))
    /\ out = <<Integer(1)>>

\* C9: the parser builds from "a -> f(args)" the program it builds from
\* "f(a, args)" and from "a -> f(x) -> g(y)" the one of "g(f(a, x), y)", so a
\* run of either returns and writes the same; when the right operand of -> is
\* not a function call the parse fails with a ParserError.
ArrowDesugarsToCall ==
    /\ (alt # <<>> /\ pc # "parse") =>
          /\ result.kind # "parse_error"
          /\ ~ParseProgram(alt).err
          /\ program = ParseProgram(alt).node
    /\ (alt # <<>> /\ pc = "done") =>
          [kind |-> result.kind, val |-> result.val, msg |-> result.msg,
           out |-> out] = Run(alt)
    /\ (src \in ArrowNonCalls /\ pc = "done") =>
          result = [kind |-> "parse_error", val |-> nil,
                    msg |-> "right of '->' should be function call"]

\* 7 -> sub(2) was run: it is sub(7, 2), which is 5.
ArrowCallEvaluated ==
    /\ src = ArrowCase(<<"7">>, "sub", <<<<"2">>>>).src
    /\ alt = ArrowCase(<<"7">>, "sub", <<<<"2">>>>).alt
    /\ Returned(Integer(5))

\* The interpreter run on the arithmetic sources.
InitArith ==
    \E source \in ArithPrograms : InitOn(source, <<>>)

SpecArith == InitArith /\ [][Next]_vars

(***************************************************************************)
(* Host arithmetic and the standard reading of an arithmetic expression,   *)
(* stated independently of the parser and the evaluator: a sum of products *)
(* of signed primaries, each level associating to the left.                *)
(***************************************************************************)
\* The word of IntBits bits that is congruent to n.
Word(n) ==
    CHOOSE w \in MinInt..MaxInt : (n - w) % Modulus = 0

\* The quotient truncated toward zero: what is left has the dividend's sign
\* and is smaller than the divisor.
Quotient(l, r) ==
    CHOOSE q \in (0 - Abs(l))..Abs(l) :
        /\ Abs(l - q * r) < Abs(r)
        /\ l - q * r # 0 => ((l - q * r < 0) <=> (l < 0))

\* A value of the reading, or none when it divides by zero.
Defined(v, pos) ==
    [ok |-> TRUE, val |-> v, pos |-> pos]

Undefined ==
    [ok |-> FALSE, val |-> 0, pos |-> 0]

\* l operator r in host arithmetic.
HostApply(operator, l, r, pos) ==
    IF ~l.ok \/ ~r.ok THEN Undefined
    ELSE CASE operator = "PLUS" -> Defined(Word(l.val + r.val), pos)
           [] operator = "MINUS" -> Defined(Word(l.val - r.val), pos)
           [] operator = "ASTER" -> Defined(Word(l.val * r.val), pos)
           [] operator = "SLASH" ->
                IF r.val = 0 THEN Undefined
                ELSE Defined(Word(Quotient(l.val, r.val)), pos)
           [] operator = "PERCENT" ->
                IF r.val = 0 THEN Undefined
                ELSE Defined(Word(l.val - Quotient(l.val, r.val) * r.val), pos)

RECURSIVE Decimal(_)
\* The number a digit string writes.
Decimal(digits) ==
    IF digits = <<>> THEN 0
    ELSE 10 * Decimal(SubSeq(digits, 1, Len(digits) - 1)) + digits[Len(digits)]

RECURSIVE RefSum(_, _)
RECURSIVE RefSumRest(_, _)
RECURSIVE RefProduct(_, _)
RECURSIVE RefProductRest(_, _)
RECURSIVE RefSigned(_, _)

\* A literal, an expression in parentheses, or the negation of a signed
\* primary; pos is the position of its first token and the value carries the
\* position after its last.
RefSigned(toks, pos) ==
    CASE toks[pos].Type = "INTEGER" -> Defined(Decimal(toks[pos].Digits), pos + 1)
      [] toks[pos].Type = "MINUS" ->
            HostApply("MINUS", Defined(0, 0), RefSigned(toks, pos + 1),
                      RefSigned(toks, pos + 1).pos)
      [] toks[pos].Type = "LPAREN" ->
            [RefSum(toks, pos + 1) EXCEPT !.pos = @ + 1]

\* The product so far, left, followed by the token at left.pos.
RefProductRest(toks, left) ==
    IF ~left.ok \/ toks[left.pos].Type \notin {"ASTER", "SLASH", "PERCENT"} THEN left
    ELSE RefProductRest(toks,
             HostApply(toks[left.pos].Type, left, RefSigned(toks, left.pos + 1),
                       RefSigned(toks, left.pos + 1).pos))

RefProduct(toks, pos) ==
    RefProductRest(toks, RefSigned(toks, pos))

\* The sum so far, left, followed by the token at left.pos.
RefSumRest(toks, left) ==
    IF ~left.ok \/ toks[left.pos].Type \notin {"PLUS", "MINUS"} THEN left
    ELSE RefSumRest(toks,
             HostApply(toks[left.pos].Type, left, RefProduct(toks, left.pos + 1),
                       RefProduct(toks, left.pos + 1).pos))

RefSum(toks, pos) ==
    RefSumRest(toks, RefProduct(toks, pos))

\* The source is one expression statement of integer literals, parentheses,
\* - and the infix operators + - * / %.
IsArithmetic(toks) ==
    /\ \A i \in 1..(Len(toks) - 1) :
          toks[i].Type \in {"INTEGER", "LPAREN", "RPAREN", "PLUS", "MINUS", "ASTER",
                            "SLASH", "PERCENT"}
    /\ toks[Len(toks)].Type = "SEMICOLON"

\* C10: for every expression of integer literals, parentheses, prefix - and
\* the infix operators + - * / % that does not divide by zero, the run returns
\* the Integer that host two's-complement arithmetic gives under the standard
\* precedence and left associativity.
ArithmeticAgreesWithHost ==
    (pc = "done" /\ IsArithmetic(src) /\ RefSum(src, 1).ok) =>
        Returned(Integer(RefSum(src, 1).val))

\* 64 - 7 - -1 was run and is 58: (64 - 7) - -1.
SubtractionAssociatesLeft ==
    /\ src = Lex(<<"64", "-", "7", "-", "-", "1", ";">>)
    /\ RefSum(src, 1).ok
    /\ Returned(Integer(58))

\* The position of the first statement of the kinds that returns, and one
\* past the last position when none does.
FirstReturn(kinds) ==
    IF \E i \in 1..Len(kinds) : kinds[i] \in {"return", "ifreturn"}
    THEN CHOOSE i \in 1..Len(kinds) :
            /\ kinds[i] \in {"return", "ifreturn"}
            /\ \A j \in 1..(i - 1) : kinds[j] \notin {"return", "ifreturn"}
    ELSE Len(kinds) + 1

\* The positions before stop whose statement is of the kind, in order.
PositionsOf(kinds, kind, stop) ==
    SelectSeq([i \in 1..(stop - 1) |-> i], LAMBDA i : kinds[i] = kind)

\* C11: the top-level statements are evaluated in order in the root frame; a
\* statement that evaluates to a ReturnValue (a return, or an if whose block
\* returns) ends the program with the payload, and the puts and var
\* statements after it have no effect; without one the program's value is
\* that of its last statement (nothing for puts, var and the empty program).
ProgramEvaluatesInOrder ==
    \A kinds \in SeqsUpTo(StatementKinds, MaxStatements) :
        (pc = "done" /\ src = TopProgram(kinds)) =>
            LET stop == FirstReturn(kinds)
                puts == PositionsOf(kinds, "puts", stop)
                bound == PositionsOf(kinds, "var", stop)
            IN  /\ out = [k \in 1..Len(puts) |-> Integer(puts[k])]
                /\ DOMAIN heap[1].store = {ParamNames[bound[k]] : k \in 1..Len(bound)}
                /\ \A k \in 1..Len(bound) :
                      heap[1].store[ParamNames[bound[k]]] = Integer(bound[k])
                /\ Len(heap) = 1
                /\ IF stop <= Len(kinds) THEN Returned(Integer(stop))
                   ELSE IF kinds # <<>> /\ kinds[Len(kinds)] = "expr"
                   THEN Returned(Integer(Len(kinds)))
                   ELSE Returned(nil)

\* puts(1); return 2; puts(3); wrote 1 alone and returned 2.
TopLevelReturnStopsProgram ==
    /\ src = TopProgram(<<"puts", "return", "puts">>)
    /\ Returned(Integer(2))
    /\ out = <<Integer(1)>>

\* The run returned the value that frame f binds to name.
ReturnedBinding(f, name) ==
    /\ f <= Len(heap)
    /\ name \in DOMAIN heap[f].store
    /\ Returned(heap[f].store[name])

\* C12: after var x = e, the identifier x evaluates to the value bound in the
\* innermost frame that binds it, in the frame itself and in a frame chained
\* to it, for every value e produces; a user binding named len is found
\* before the built-in; the built-in is found when no frame binds the name;
\* a name bound nowhere fails with undefined identifier.
IdentifierResolvesInnermost ==
    pc = "done" =>
        /\ \A e \in IdentValues :
              /\ src = IdentSame(e) => ReturnedBinding(1, "x")
              /\ src = IdentChained(e) => ReturnedBinding(1, "x")
              /\ src = IdentInner(e) =>
                    ReturnedBinding(2, "x") /\ RootBinds("x", Integer(7))
              /\ src = IdentShadowsBuiltin(e) => ReturnedBinding(1, "len")
        /\ src = IdentUndefined => Failed("undefined identifier")
        /\ src = IdentBuiltin => Returned(BuiltinFunction("len"))

\* var x = 7; || { var x = [1]; x; }(); returned the inner binding.
InnerBindingResolved ==
    /\ src = IdentInner(<<"[", "1", "]">>)
    /\ Returned(Array(<<Integer(1)>>))
    /\ ReturnedBinding(2, "x")
    /\ RootBinds("x", Integer(7))

\* The function call f(args) as an expression.
CallOf(f, args) ==
    f \o <<"(">> \o CommaJoin(args) \o <<")">>

\* What a source made of the one expression statement returns.
ValueOf(expression) ==
    Outcome(Run(Lex(expression \o <<";">>)))

\* The array of the calls f(a[i]): the value of [f(a1), ..., f(an)].
MapOfCalls(a, f) ==
    ValueOf(<<"[">> \o CommaJoin([k \in 1..Len(a) |-> CallOf(f, <<<<NumeralOf(a[k])>>>>)])
            \o <<"]">>)

\* The elements whose call f(elem) is neither FALSE nor NULL, in order.
FilterByCalls(a, f) ==
    LET kept == SelectSeq(a, LAMBDA e :
                    ValueOf(CallOf(f, <<<<NumeralOf(e)>>>>)).val
                        \notin {FALSE_OBJ, NULL_OBJ})
    IN  Array([k \in 1..Len(kept) |-> Integer(kept[k])])

RECURSIVE FoldOfCalls(_, _, _)
\* The expression f(... f(f(init, a1), a2) ..., an).
FoldOfCalls(a, init, f) ==
    IF a = <<>> THEN init
    ELSE CallOf(f, <<FoldOfCalls(SubSeq(a, 1, Len(a) - 1), init, f),
                     <<NumeralOf(a[Len(a)])>>>>)

\* C13: map(a, f) is the array of the values of the calls f(a[i]), filter(a, f)
\* keeps in order the elements whose call f(elem) is neither FALSE nor NULL,
\* and reduce(a, 10, f) is the left fold of the calls f(acc, elem) from 10,
\* whether the body of f ends in an expression statement or returns.
HigherOrderAppliesAsCall ==
    pc = "done" =>
        \A a \in Arrays :
            /\ \A f \in MapFunctions :
                  src = MapProgram(a, f) => result = MapOfCalls(a, f)
            /\ \A f \in FilterFunctions :
                  src = FilterProgram(a, f) => Returned(FilterByCalls(a, f))
            /\ \A f \in ReduceFunctions :
                  src = ReduceProgram(a, f) =>
                      result = ValueOf(FoldOfCalls(a, <<"10">>, f))

\* reduce([3, 1], 10, |acc, x| { acc - x; }); returned (10 - 3) - 1.
ReduceFoldsLeft ==
    /\ src = ReduceProgram(<<3, 1>>, FunctionOf(<<"acc", "x">>, <<"acc", "-", "x">>, FALSE))
    /\ Returned(Integer(6))

\* C14: a source in which a delimiter the grammar requires is missing is
\* never accepted: ParseProgram returns a ParserError, no Program is built and
\* nothing is evaluated; the complete sources are parsed.
MissingDelimiterAbortsParsing ==
    /\ src \in MissingDelimiterPrograms =>
          /\ pc # "eval"
          /\ pc = "done" => result.kind = "parse_error"
    /\ (src \in DelimitedPrograms /\ pc = "done") => result.kind # "parse_error"

\* "( 2 ;" was rejected: the ) that closes the group is missing.
UnclosedGroupRejected ==
    /\ src = Lex(<<"(", "2", ";">>)
    /\ pc = "done"
    /\ result.kind = "parse_error"

\* C15: indexing an array of length n with i returns element i when
\* 0 <= i <= n - 1 and fails with index out of range when i < 0 or i >= n, so
\* for every index into the empty array; no element outside the array is read.
IndexWithinBounds ==
    \A a \in Arrays : \A i \in Indices :
        (pc = "done" /\ src = IndexProgram(a, i)) =>
            IF 0 <= i /\ i <= Len(a) - 1
            THEN Returned(Integer(a[i + 1]))
            ELSE Failed("index out of range")

\* [3, 1][2]; failed: 2 is the length of the array.
IndexAtLengthFails ==
    /\ src = IndexProgram(<<3, 1>>, 2)
    /\ Failed("index out of range")

\* The position of the first argument that fails, Len(arguments) + 1 if none.
FirstFailing(arguments) ==
    IF \E k \in 1..Len(arguments) : arguments[k] # "puts"
    THEN CHOOSE k \in 1..Len(arguments) :
            /\ arguments[k] # "puts"
            /\ \A j \in 1..(k - 1) : arguments[j] = "puts"
    ELSE Len(arguments) + 1

\* C16: in a call the arguments are evaluated left to right, then the callee
\* expression, then the body; the first failure in that order is the error
\* of the call, and nothing after it is evaluated: out holds the marks of
\* the arguments before the failure, then 7 of the callee, then 9 of the body.
CallEvaluatesArgumentsCalleeBody ==
    \A arguments \in SeqsUpTo(ArgumentKinds, MaxArity) :
        \A callee \in CalleeKinds, bodyFails \in BOOLEAN :
            (pc = "done" /\ src = CallOrderProgram(arguments, callee, bodyFails)) =>
                LET stop == FirstFailing(arguments)
                    marks == [k \in 1..(stop - 1) |-> Integer(k)]
                IN  IF stop <= Len(arguments)
                    THEN /\ out = marks
                         /\ IF arguments[stop] = "mismatch"
                            THEN Failed("type mismatch in infix expression")
                            ELSE Failed("unknown prefix operator for boolean")
                    ELSE IF callee = "undefined"
                    THEN out = marks /\ Failed("undefined identifier")
                    ELSE IF callee = "integer"
                    THEN out = marks /\ Failed("unable to convert to function")
                    ELSE /\ out = marks \o <<Integer(7), Integer(9)>>
                         /\ IF bodyFails THEN Failed("index out of range")
                            ELSE Returned(Integer(0))

\* mk()(puts(1), 2 + true) wrote 1 and failed in its second argument; neither
\* the callee nor the body was evaluated.
SecondArgumentFailureStopsCall ==
    /\ src = CallOrderProgram(<<"puts", "mismatch">>, "function", FALSE)
    /\ out = <<Integer(1)>>
    /\ Failed("type mismatch in infix expression")

\* C17: a function holds the frame its literal was evaluated in, not a copy
\* of it: a name bound in that frame after the literal is read by a later
\* call (and is undefined for an earlier one); a function bound with var calls
\* itself, and two functions bound in the same frame call each other; every
\* invocation binds n in a frame of its own, enclosed by the root frame.
CaptureIsByReference ==
    /\ (pc = "done" /\ src = LateBindingProgram) =>
          /\ Returned(Integer(5))
          /\ heap[1].store["f"].Env = 1
    /\ (pc = "done" /\ src = EarlyCallProgram) => Failed("undefined identifier")
    /\ \A k \in 0..MaxCalls :
          /\ (pc = "done" /\ src = SumProgram(k)) =>
                /\ Returned(Integer((k * (k + 1)) \div 2))
                /\ heap[1].store["f"].Env = 1
                /\ Len(heap) = k + 2
                /\ \A j \in 0..k : Frame(j + 2, 1, ("n" :> Integer(k - j)))
          /\ (pc = "done" /\ src = ParityProgram(k)) =>
                /\ Returned(IF k % 2 = 0 THEN TRUE_OBJ ELSE FALSE_OBJ)
                /\ Len(heap) = k + 2
                /\ \A j \in 0..k : Frame(j + 2, 1, ("n" :> Integer(k - j)))

\* f(2) of the self-recursive sum returned 0 + 1 + 2 from three frames.
RecursiveCallsKeepTheirFrames ==
    /\ src = SumProgram(2)
    /\ Returned(Integer(3))
    /\ Frame(2, 1, ("n" :> Integer(2)))
    /\ Frame(4, 1, ("n" :> Integer(0)))

====
